---- MODULE Spec2Model ----
(***************************************************************************)
(* Model of the nccreation browser extension: the unuploaded-file          *)
(* classifier, the background worker's periodic check (storage listener,   *)
(* startHourlyCheck / stopHourlyCheck, checkUnuploadedFiles) and the       *)
(* content script's API service and CHECK_UNUPLOADED_FILES handler.        *)
(***************************************************************************)
EXTENDS Integers, Sequences, FiniteSets, TLC

\* ------------------------------------------------------------------ bounds

\* Longest webhook item list the classifier is applied to.
MaxItems == 2

\* Invocations that may reach startHourlyCheck or checkUnuploadedFiles in one
\* run of the background worker (script load, lifecycle events, storage
\* changes that start the check, timer ticks).
MaxRuns == 2

\* Invocations, script load included, up to which a change of
\* checkIntervalHours by the popup or by sync may still arrive.
MaxChanges == 3

\* ------------------------------------------------------------------ data

\* The first entries of the profile list (the worker's fallback list and the
\* popup's list are the same eight names).
DEFAULT_PROFILES == <<"Anuradha", "Ankur">>

ALL == "ALL"

\* A webhook item is a record [doneBy, article]; a missing or empty field
\* is the empty string (both are falsy in the source).
DoneByValues == {"", "Anuradha", "Ankur"}

ArticleValues == {"", "A1", "A2"}

PortalArticles == {"A1", "A2"}

WebhookItems == [doneBy : DoneByValues, article : ArticleValues]

RECURSIVE SeqsUpTo(_, _)
SeqsUpTo(S, n) ==
  IF n = 0 THEN {<<>>}
  ELSE LET shorter == SeqsUpTo(S, n - 1)
       IN shorter \cup {Append(s, x) : s \in {t \in shorter : Len(t) = n - 1}, x \in S}

Range(s) == {s[i] : i \in 1..Len(s)}

\* ------------------------------------------------------------ classifier

\* Mutant of ProfileArticleIds: the pending-QA exclusion is forgotten.
RECURSIVE ProfileArticleIdsNoQA(_, _, _, _)
ProfileArticleIdsNoQA(profile, portalArticleIds, pendingQAArticleIds, apiData) ==
  IF apiData = <<>> THEN <<>>
  ELSE LET item == Head(apiData)
           doneBy == IF item.doneBy = "" THEN "-" ELSE item.doneBy
           articleNumber == item.article
           rest == ProfileArticleIdsNoQA(profile, portalArticleIds,
                                         pendingQAArticleIds, Tail(apiData))
       IN IF doneBy = profile /\ articleNumber # ""
             /\ articleNumber \in portalArticleIds
          THEN <<articleNumber>> \o rest
          ELSE rest

\* Mutant of ProfileArticleIds: the portal test is forgotten, so an article
\* counts as not uploaded unless it is pending QA.
RECURSIVE ProfileArticleIdsNoPortal(_, _, _, _)
ProfileArticleIdsNoPortal(profile, portalArticleIds, pendingQAArticleIds, apiData) ==
  IF apiData = <<>> THEN <<>>
  ELSE LET item == Head(apiData)
           doneBy == IF item.doneBy = "" THEN "-" ELSE item.doneBy
           articleNumber == item.article
           rest == ProfileArticleIdsNoPortal(profile, portalArticleIds,
                                             pendingQAArticleIds, Tail(apiData))
       IN IF doneBy = profile /\ articleNumber # ""
             /\ articleNumber \notin pendingQAArticleIds
          THEN <<articleNumber>> \o rest
          ELSE rest

\* checkProfileUnuploadedFiles, the apiData.forEach loop: the article numbers
\* pushed to profileArticleIds, in list order.
RECURSIVE ProfileArticleIds(_, _, _, _)
ProfileArticleIds(profile, portalArticleIds, pendingQAArticleIds, apiData) ==
  IF apiData = <<>> THEN <<>>
  ELSE LET item == Head(apiData)
           doneBy == IF item.doneBy = "" THEN "-" ELSE item.doneBy
           articleNumber == item.article
           isInPortal == articleNumber \in portalArticleIds
           hasPendingQA == articleNumber \in pendingQAArticleIds
           rest == ProfileArticleIds(profile, portalArticleIds,
                                     pendingQAArticleIds, Tail(apiData))
       IN IF doneBy = profile /\ articleNumber # "" /\ isInPortal /\ ~hasPendingQA
          THEN <<articleNumber>> \o rest
          ELSE rest

\* checkUnuploadedFilesForProfile, its apiData.forEach loop (content script).
RECURSIVE ContentProfileArticleIds(_, _, _, _)
ContentProfileArticleIds(profile, portalArticleIds, pendingQAArticleIds, apiData) ==
  IF apiData = <<>> THEN <<>>
  ELSE LET item == Head(apiData)
           doneBy == IF item.doneBy = "" THEN "-" ELSE item.doneBy
           articleNumber == item.article
           isInPortal == articleNumber \in portalArticleIds
           hasPendingQA == articleNumber \in pendingQAArticleIds
           rest == ContentProfileArticleIds(profile, portalArticleIds,
                                            pendingQAArticleIds, Tail(apiData))
       IN IF doneBy = profile /\ articleNumber # "" /\ isInPortal /\ ~hasPendingQA
          THEN <<articleNumber>> \o rest
          ELSE rest

\* profileItemsCount of either loop: the items whose done-by is the profile.
ProfileItemsCount(profile, apiData) ==
  Cardinality({i \in 1..Len(apiData) :
     (IF apiData[i].doneBy = "" THEN "-" ELSE apiData[i].doneBy) = profile})


\* ------------------------------------------------- background: responses

\* What the portal request can come back as: a network error or an HTTP
\* error status, a page without the table, a table without a thead, without
\* an 'Article ID' header or without a tbody, or a readable table.
\* hasAction: an 'Action' header exists (actionIndex # -1).
PortalRows1 == <<[articleId |-> "A1", action |-> "Upload"]>>

PortalRows2 == <<[articleId |-> "A1", action |-> "Upload"],
                 [articleId |-> "A2", action |-> "pending QA validation"]>>

PortalPages ==
  {[kind |-> "networkError", hasAction |-> FALSE, rows |-> <<>>],
   [kind |-> "httpError", hasAction |-> FALSE, rows |-> <<>>],
   [kind |-> "noTable", hasAction |-> FALSE, rows |-> <<>>],
   [kind |-> "noHeader", hasAction |-> FALSE, rows |-> PortalRows1],
   [kind |-> "noArticleIdColumn", hasAction |-> TRUE, rows |-> PortalRows1],
   [kind |-> "noBody", hasAction |-> TRUE, rows |-> <<>>],
   [kind |-> "ok", hasAction |-> TRUE, rows |-> PortalRows1],
   [kind |-> "ok", hasAction |-> TRUE, rows |-> PortalRows2]}

EmptyPortalData == [portalArticleIds |-> {}, pendingQAArticleIds |-> {}]

\* Mutant of FetchPortalData: the test for a missing 'Article ID' header is
\* left out and the first column is read instead.
FetchPortalDataAnyHeader(page) ==
  IF page.kind \notin {"ok", "noArticleIdColumn"}
  THEN EmptyPortalData
  ELSE LET filled == {i \in 1..Len(page.rows) : page.rows[i].articleId # ""}
       IN [portalArticleIds |-> {page.rows[i].articleId : i \in filled},
           pendingQAArticleIds |->
             {page.rows[i].articleId :
                i \in {j \in filled : page.hasAction
                          /\ page.rows[j].action = "pending QA validation"}}]

\* fetchPortalData: the sets returned for a response.
FetchPortalData(page) ==
  IF page.kind # "ok"
  THEN EmptyPortalData
  ELSE LET filled == {i \in 1..Len(page.rows) : page.rows[i].articleId # ""}
       IN [portalArticleIds |-> {page.rows[i].articleId : i \in filled},
           pendingQAArticleIds |->
             {page.rows[i].articleId :
                i \in {j \in filled : page.hasAction
                          /\ page.rows[j].action = "pending QA validation"}}]

\* How fetchPortalData ended for a response: "failed" is its catch block
\* (a network error, or the throw on a status that is not ok).
PortalOutcome(page) ==
  IF page.kind \in {"networkError", "httpError"} THEN "failed" ELSE page.kind

WebhookData1 == <<[doneBy |-> "Anuradha", article |-> "A1"]>>

WebhookData2 == <<[doneBy |-> "Anuradha", article |-> "A1"],
                  [doneBy |-> "Ankur", article |-> "A2"]>>

\* An array element that is null: reading a property of it throws a
\* TypeError. No real item has these field values.
NullItem == [doneBy |-> "null", article |-> "null"]

WebhookDataNull == <<[doneBy |-> "Anuradha", article |-> "A1"], NullItem>>

\* The callback of apiData.forEach reads item['Done by'] of every element
\* first: it throws on the first null element, whatever the profile.
ForEachThrows(apiData) == \E i \in 1..Len(apiData) : apiData[i] = NullItem

\* What the webhook request can come back as: a network error, an HTTP error
\* status, a body that is not JSON, or a JSON array (JSON that is no array
\* is returned as the empty array, as the empty array itself is).
WebhookResponses ==
  {[kind |-> "networkError", data |-> <<>>],
   [kind |-> "httpError", data |-> <<>>],
   [kind |-> "parseError", data |-> <<>>],
   [kind |-> "ok", data |-> <<>>],
   [kind |-> "ok", data |-> WebhookData1],
   [kind |-> "ok", data |-> WebhookData2],
   [kind |-> "ok", data |-> WebhookDataNull]}

\* Mutant of FetchApiData: the catch block returns items of an earlier
\* response instead of the empty array.
FetchApiDataStale(resp) == IF resp.kind = "ok" THEN resp.data ELSE WebhookData1

\* fetchApiData: the array returned for a response.
FetchApiData(resp) == IF resp.kind = "ok" THEN resp.data ELSE <<>>

\* How fetchApiData ended for a response: "failed" is its catch block (a
\* network error, the throw on an error status, or response.json() throwing).
ApiOutcome(resp) == IF resp.kind = "ok" THEN "ok" ELSE "failed"

\* ----------------------------------------------------- background: state

DEFAULT_CHECK_INTERVAL_HOURS == 3
MIN_CHECK_INTERVAL_HOURS == 1
MAX_CHECK_INTERVAL_HOURS == 10

\* Values of selectedProfile in storage; "" is no profile.
ProfileValues == {"", "Anuradha", ALL}

\* Values of checkIntervalHours in storage; 0 is no value stored.
StoredIntervals == {0, 12}

VARIABLES
  selectedProfile,       \* chrome.storage.sync: selectedProfile
  notificationsEnabled,  \* chrome.storage.sync: notificationsEnabled
  checkIntervalHours,    \* chrome.storage.sync: checkIntervalHours
  lastChange,            \* the key and direction of the latest storage change
  checkInterval,         \* the worker's checkInterval: 0 is null, else a timer id
  timers,                \* every interval timer created: [period, running]
  bootPending,           \* startup handlers waiting for their storage.get
  installedFired,        \* onInstalled has fired
  startupFired,          \* onStartup has fired
  startAwaitEnabled,     \* startHourlyCheck calls at await areNotificationsEnabled()
  startAwaitInterval,    \* startHourlyCheck calls at await getCheckIntervalMs()
  intervalAwaitEnabled,  \* interval-change handlers at areNotificationsEnabled().then
  runs,                  \* invocations counted against MaxRuns
  checks,                \* every checkUnuploadedFiles call, in order of start
  now,                   \* Date.now(), in timer periods
  notifications,         \* ids present in the notification centre
  portalRequests,        \* requests sent to PORTAL_URL
  apiRequests            \* requests sent to API_URL

bgVars == <<selectedProfile, notificationsEnabled, checkIntervalHours, lastChange,
            checkInterval, timers, bootPending, installedFired, startupFired,
            startAwaitEnabled, startAwaitInterval, intervalAwaitEnabled, runs,
            checks, now, notifications, portalRequests, apiRequests>>

\* ---------------------------------------------------- content script: state

VARIABLES
  hasFetched,        \* API service: hasFetched
  isFetching,        \* API service: isFetching
  fetchPromise,      \* API service: fetchPromise, 0 is null, else a promise id
  articleDoneByMap,  \* API service: articleDoneByMap
  apiResponseData,   \* API service: apiResponseData
  promises,          \* every promise fetchDoneByData created: pending, resolved, rejected
  requests,          \* requests the page sent to API_URL
  lastCall,          \* the latest fetchDoneByData call: its argument, what it met, what it returned
  table,             \* the page's #article_data table
  permission,        \* Notification.permission
  messages,          \* every CHECK_UNUPLOADED_FILES request handled, in order
  pageNotifications  \* tags present among the page's notifications

csVars == <<hasFetched, isFetching, fetchPromise, articleDoneByMap, apiResponseData,
            promises, requests, lastCall, table, permission, messages,
            pageNotifications>>

\* ----------------------------------------------------- classifier: state

VARIABLES
  fnItems,      \* the webhook item list W
  fnPortal,     \* the portal ID set P
  fnPendingQA,  \* the QA-pending set Q
  fnProfile,    \* the profile p
  fnRan,        \* which classifier ran last on these inputs, "none" before
  fnResult      \* the list it gave

fnVars == <<fnItems, fnPortal, fnPendingQA, fnProfile, fnRan, fnResult>>

\* ---------------------------------------------------------- popup: state

VARIABLES
  intervalInput,  \* the popup's check-interval field, in hours; 0 before it is filled
  lastSet         \* the value of the popup's latest storage.set of checkIntervalHours; 0 before

puVars == <<intervalInput, lastSet>>

\* ------------------------------------------------------- past due: state

VARIABLES
  pdNow,           \* new Date() at the check: [day, minute] of the local calendar
  pdCell,          \* the text of the row's Assign Date cell
  pdRan,           \* the row has been looked at
  pdIsPast,        \* isPastDate(assignDate)
  pdDelayedHours,  \* calculateDelayedHours(assignDate)
  pdHoursText      \* formatHours(delayedHours)

pdVars == <<pdNow, pdCell, pdRan, pdIsPast, pdDelayedHours, pdHoursText>>

\* ---------------------------------------------------------- table: state

VARIABLES
  headers,       \* the texts of the header cells of #article_data, left to right
  rows,          \* the body rows, top to bottom: the portal's cells and the
                 \* injected DONE BY cell, if the row has one
  articleMap,    \* API.getArticleMap(), as the table manager reads it
  sortState,     \* the sort manager's direction of each column
  isReordering,  \* the table manager's guard flag
  orderPending,  \* applyTableOrder calls scheduled and not yet run
  lastOp         \* the table operation that ran last

tbVars == <<headers, rows, articleMap, sortState, isReordering, orderPending, lastOp>>

\* -------------------------------------------------- abbreviations: state

\* One call of generateUniqueAbbreviations: its argument, its locals and its
\* position.
VARIABLE gen

abVars == <<gen>>

\* ----------------------------------------------- page listeners: state

\* The DataTables listeners of the page script: which headers the table has,
\* the timers the listeners have set and not yet run, the user's inputs.
VARIABLE recon

rcVars == <<recon>>

\* ------------------------------------------------------ page load: state

\* The start of the page script: its flags, the callbacks still to come and
\* what has run.
VARIABLE loader

ldVars == <<loader>>

\* ---------------------------------------------------------- stats: state

\* What displayTodayStats computed for one person of the webhook list.
VARIABLE stats

stVars == <<stats>>

\* Which script a behaviour follows. The worker and the page script run in
\* different contexts and share no state; the popup and the worker share
\* chrome.storage.sync.
VARIABLE script

vars == <<script, bgVars, csVars, fnVars, puVars, pdVars, tbVars, abVars, rcVars, ldVars, stVars>>

otherThanBg == <<script, csVars, fnVars, puVars, pdVars, tbVars, abVars, rcVars, ldVars, stVars>>

storageVars == <<selectedProfile, notificationsEnabled, checkIntervalHours, lastChange>>

checkVars == <<checks, notifications, portalRequests, apiRequests>>

\* A checkUnuploadedFiles call that has just been made: suspended at its
\* first await, the storage read of selectedProfile.
NewCheck ==
  [pc |-> "awaitProfile", selectedProfile |-> "", profilesToCheck |-> <<>>,
   portal |-> "none", api |-> "none",
   portalData |-> EmptyPortalData, apiData |-> <<>>,
   i |-> 0, hasAnyUnuploaded |-> FALSE, sent |-> {}, ended |-> ""]

\* A checkUnuploadedFiles call that has returned: its locals are gone; what
\* stays on record is how its fetches ended, the titles it sent and where
\* it ended: "noProfile" and "noApiData" are its two early returns,
\* "caught" its catch block, "returned" the end of its try block.
Finished(chk, titles, how) ==
  [NewCheck EXCEPT !.pc = "done", !.portal = chk.portal, !.api = chk.api,
                   !.selectedProfile = chk.selectedProfile, !.sent = titles,
                   !.ended = how]

RunningTimers == {t \in 1..Len(timers) : timers[t].running}

\* clearInterval(id): a no-op for null and for a timer already cleared.
ClearInterval(ts, id) ==
  IF id \in 1..Len(ts) THEN [ts EXCEPT ![id].running = FALSE] ELSE ts

\* Mutant of GetCheckIntervalHours: the clamp is left out.
GetCheckIntervalHoursNoClamp(stored) ==
  IF stored = 0 THEN DEFAULT_CHECK_INTERVAL_HOURS ELSE stored

\* getCheckIntervalMs, in hours: the stored value or the default, clamped.
GetCheckIntervalHours(stored) ==
  LET intervalHours == IF stored = 0 THEN DEFAULT_CHECK_INTERVAL_HOURS ELSE stored
      capped == IF intervalHours < MAX_CHECK_INTERVAL_HOURS
                THEN intervalHours ELSE MAX_CHECK_INTERVAL_HOURS
  IN IF capped > MIN_CHECK_INTERVAL_HOURS THEN capped ELSE MIN_CHECK_INTERVAL_HOURS

\* The notification id of a profile's unuploaded-files reminder sent at time t.
UnuploadedNotificationId(profile, t) == <<"unuploaded", profile, t>>

\* The id sendBackgroundNotification makes up when it is given no tag
\* (Date.now() and Math.random()): one that no other notification has.
FreshNotificationId(c, t) == <<"notification", c, t>>

InitBackground ==
  /\ selectedProfile \in ProfileValues
  /\ notificationsEnabled \in BOOLEAN
  /\ checkIntervalHours \in StoredIntervals
  /\ lastChange = "none"
  /\ checkInterval = 0
  /\ timers = <<>>
  /\ bootPending = 1
  /\ installedFired = FALSE
  /\ startupFired = FALSE
  /\ startAwaitEnabled = 0
  /\ startAwaitInterval = 0
  /\ intervalAwaitEnabled = 0
  /\ runs = 1
  /\ checks = <<>>
  /\ now = 0
  /\ notifications = {}
  /\ portalRequests = 0
  /\ apiRequests = 0

\* --------------------------------------------------- background: timer

\* stopHourlyCheck: the timer checkInterval names is cleared, then forgotten.
StopHourlyCheck ==
  /\ timers' = ClearInterval(timers, checkInterval)
  /\ checkInterval' = 0

\* A call of startHourlyCheck: it runs to its first await, the storage read
\* of areNotificationsEnabled.
CallStartHourlyCheck ==
  /\ startAwaitEnabled' = startAwaitEnabled + 1
  /\ UNCHANGED <<checkInterval, timers>>

\* onInstalled: the handler asks storage for the profile and the flag.
OnInstalled ==
  /\ ~installedFired
  /\ runs < MaxRuns
  /\ installedFired' = TRUE
  /\ bootPending' = bootPending + 1
  /\ runs' = runs + 1
  /\ UNCHANGED <<otherThanBg, storageVars, checkInterval, timers, startupFired, startAwaitEnabled,
                 startAwaitInterval, intervalAwaitEnabled, now, checkVars>>

\* onStartup: the same handler.
OnStartup ==
  /\ ~startupFired
  /\ runs < MaxRuns
  /\ startupFired' = TRUE
  /\ bootPending' = bootPending + 1
  /\ runs' = runs + 1
  /\ UNCHANGED <<otherThanBg, storageVars, checkInterval, timers, installedFired, startAwaitEnabled,
                 startAwaitInterval, intervalAwaitEnabled, now, checkVars>>

\* The storage.get of a startup handler (script load, onInstalled, onStartup)
\* resolves: startHourlyCheck is called if a profile is stored and the
\* notifications are enabled.
BootStorageReply ==
  /\ bootPending > 0
  /\ bootPending' = bootPending - 1
  /\ IF selectedProfile # "" /\ notificationsEnabled
     THEN CallStartHourlyCheck
     ELSE UNCHANGED <<startAwaitEnabled, checkInterval, timers>>
  /\ UNCHANGED <<otherThanBg, storageVars, installedFired, startupFired, startAwaitInterval,
                 intervalAwaitEnabled, runs, now, checkVars>>

\* storage.onChanged with changes[selectedProfile]: a profile starts the
\* check, no profile stops it.
ChangeProfile(newProfile) ==
  /\ newProfile # selectedProfile
  /\ selectedProfile' = newProfile
  /\ IF newProfile # ""
     THEN /\ runs < MaxRuns
          /\ runs' = runs + 1
          /\ lastChange' = "profileSelected"
          /\ CallStartHourlyCheck
     ELSE /\ runs' = runs
          /\ lastChange' = "profileCleared"
          /\ StopHourlyCheck
          /\ UNCHANGED startAwaitEnabled
  /\ UNCHANGED <<otherThanBg, notificationsEnabled, checkIntervalHours, bootPending, installedFired,
                 startupFired, startAwaitInterval, intervalAwaitEnabled, now, checkVars>>

\* storage.onChanged with changes[notificationsEnabled].
ChangeNotificationsEnabled(isEnabled) ==
  /\ isEnabled # notificationsEnabled
  /\ notificationsEnabled' = isEnabled
  /\ IF isEnabled
     THEN /\ runs < MaxRuns
          /\ runs' = runs + 1
          /\ lastChange' = "enabled"
          /\ CallStartHourlyCheck
     ELSE /\ runs' = runs
          /\ lastChange' = "disabled"
          /\ StopHourlyCheck
          /\ UNCHANGED startAwaitEnabled
  /\ UNCHANGED <<otherThanBg, selectedProfile, checkIntervalHours, bootPending, installedFired,
                 startupFired, startAwaitInterval, intervalAwaitEnabled, now, checkVars>>

\* A new value is stored under checkIntervalHours and storage.onChanged
\* fires with changes[checkIntervalHours]: the handler asks
\* areNotificationsEnabled and decides in its then-callback.
StoreCheckInterval(newIntervalHours) ==
  /\ newIntervalHours # checkIntervalHours
  /\ runs < MaxChanges
  /\ runs' = runs + 1
  /\ checkIntervalHours' = newIntervalHours
  /\ lastChange' = "interval"
  /\ intervalAwaitEnabled' = intervalAwaitEnabled + 1
  /\ UNCHANGED <<selectedProfile, notificationsEnabled, checkInterval, timers,
                 bootPending, installedFired, startupFired, startAwaitEnabled,
                 startAwaitInterval, now, checkVars>>

\* The value is stored by a writer other than this popup (another device
\* through sync, or the key is removed).
ChangeCheckInterval(newIntervalHours) ==
  /\ runs < MaxRuns
  /\ StoreCheckInterval(newIntervalHours)
  /\ UNCHANGED otherThanBg

\* The same, as one of several changes in a row.
SyncCheckInterval(newIntervalHours) ==
  /\ StoreCheckInterval(newIntervalHours)
  /\ UNCHANGED otherThanBg

\* The then-callback of the interval change: restart if enabled and armed.
IntervalChangeReply ==
  /\ intervalAwaitEnabled > 0
  /\ intervalAwaitEnabled' = intervalAwaitEnabled - 1
  /\ IF notificationsEnabled /\ checkInterval # 0
     THEN CallStartHourlyCheck
     ELSE UNCHANGED <<startAwaitEnabled, checkInterval, timers>>
  /\ UNCHANGED <<otherThanBg, storageVars, bootPending, installedFired, startupFired,
                 startAwaitInterval, runs, now, checkVars>>

\* startHourlyCheck resumes from await areNotificationsEnabled(): disabled
\* stops the check and returns; enabled clears the timer checkInterval names
\* (checkInterval keeps the id) and waits for getCheckIntervalMs.
StartEnabledReply ==
  /\ startAwaitEnabled > 0
  /\ startAwaitEnabled' = startAwaitEnabled - 1
  /\ IF ~notificationsEnabled
     THEN /\ StopHourlyCheck
          /\ UNCHANGED startAwaitInterval
     ELSE /\ timers' = ClearInterval(timers, checkInterval)
          /\ checkInterval' = checkInterval
          /\ startAwaitInterval' = startAwaitInterval + 1
  /\ UNCHANGED <<otherThanBg, storageVars, bootPending, installedFired, startupFired,
                 intervalAwaitEnabled, runs, now, checkVars>>

\* startHourlyCheck resumes from await getCheckIntervalMs(): it calls
\* checkUnuploadedFiles (not awaited) and arms a new interval timer.
StartIntervalReply ==
  /\ startAwaitInterval > 0
  /\ startAwaitInterval' = startAwaitInterval - 1
  /\ checks' = Append(checks, NewCheck)
  /\ timers' = Append(timers, [period |-> GetCheckIntervalHours(checkIntervalHours),
                               running |-> TRUE])
  /\ checkInterval' = Len(timers) + 1
  /\ UNCHANGED <<otherThanBg, storageVars, bootPending, installedFired, startupFired,
                 startAwaitEnabled, intervalAwaitEnabled, runs, now,
                 notifications, portalRequests, apiRequests>>

\* A running interval timer fires: its callback calls checkUnuploadedFiles.
Tick(t) ==
  /\ t \in RunningTimers
  /\ runs < MaxRuns
  /\ runs' = runs + 1
  /\ now' = now + 1
  /\ checks' = Append(checks, NewCheck)
  /\ UNCHANGED <<otherThanBg, storageVars, checkInterval, timers, bootPending, installedFired,
                 startupFired, startAwaitEnabled, startAwaitInterval,
                 intervalAwaitEnabled, notifications, portalRequests, apiRequests>>

\* ----------------------------------------- background: checkUnuploadedFiles

timerVars == <<checkInterval, timers, bootPending, installedFired, startupFired,
               startAwaitEnabled, startAwaitInterval, intervalAwaitEnabled, runs, now>>

\* checkProfileUnuploadedFiles for profile number chk.i, and what follows it
\* in checkUnuploadedFiles up to the next suspension: the one-second delay
\* before the next profile, or the summary of an ALL check and the return.
\* An error thrown by the loop lands in the catch block, which sends the
\* 'Error' notification. Gives the check and the notification centre
\* afterwards.
RunProfile(c, chk, notes, t) ==
  IF ForEachThrows(chk.apiData)
  THEN [chk |-> Finished(chk, chk.sent \cup {"Error"}, "caught"),
        notes |-> notes \cup {FreshNotificationId(c, t)}]
  ELSE
  LET profile == chk.profilesToCheck[chk.i]
      profileArticleIds ==
        ProfileArticleIds(profile, chk.portalData.portalArticleIds,
                          chk.portalData.pendingQAArticleIds, chk.apiData)
      hasUnuploaded == Len(profileArticleIds) > 0
      notes1 == IF hasUnuploaded
                THEN notes \cup {UnuploadedNotificationId(profile, t)}
                ELSE notes
      sent1 == IF hasUnuploaded
               THEN chk.sent \cup {"Unuploaded Files Reminder"}
               ELSE chk.sent
      hasAny == chk.hasAnyUnuploaded \/ hasUnuploaded
  IN IF chk.i < Len(chk.profilesToCheck)
     THEN [chk |-> [chk EXCEPT !.pc = "delay", !.i = @ + 1, !.sent = sent1,
                               !.hasAnyUnuploaded = hasAny],
           notes |-> notes1]
     ELSE IF chk.selectedProfile = ALL
     THEN [chk |-> Finished(chk, sent1 \cup {"Check Complete"}, "returned"),
           notes |-> notes1 \cup {FreshNotificationId(c, t)}]
     ELSE [chk |-> Finished(chk, sent1, "returned"), notes |-> notes1]

\* Mutant of AfterFetches: with no API data the check returns without its
\* 'Check Complete' notification.
AfterFetchesSilent(c, chk, notes, t) ==
  IF Len(chk.apiData) = 0
  THEN [chk |-> Finished(chk, chk.sent, "noApiData"), notes |-> notes]
  ELSE RunProfile(c, [chk EXCEPT !.i = 1], notes, t)

\* checkUnuploadedFiles once Promise.all has both results: no API data is
\* reported and ends the check, otherwise the profile loop starts.
AfterFetches(c, chk, notes, t) ==
  IF Len(chk.apiData) = 0
  THEN [chk |-> Finished(chk, chk.sent \cup {"Check Complete"}, "noApiData"),
        notes |-> notes \cup {FreshNotificationId(c, t)}]
  ELSE RunProfile(c, [chk EXCEPT !.i = 1], notes, t)

\* The storage read of selectedProfile resolves: without a profile the
\* check returns, with one it asks for the profile list.
CheckProfileReply(c) ==
  /\ c \in 1..Len(checks)
  /\ checks[c].pc = "awaitProfile"
  /\ checks' = [checks EXCEPT ![c] =
       IF selectedProfile = ""
       THEN Finished(@, {}, "noProfile")
       ELSE [@ EXCEPT !.pc = "awaitProfilesList", !.selectedProfile = selectedProfile]]
  /\ UNCHANGED <<otherThanBg, storageVars, timerVars, notifications, portalRequests, apiRequests>>

\* getProfilesList resolves: the profiles to check are fixed and both
\* requests are sent.
CheckProfilesListReply(c) ==
  /\ c \in 1..Len(checks)
  /\ checks[c].pc = "awaitProfilesList"
  /\ checks' = [checks EXCEPT ![c] =
       [@ EXCEPT !.pc = "awaitFetches",
                 !.profilesToCheck = IF checks[c].selectedProfile = ALL
                                     THEN DEFAULT_PROFILES
                                     ELSE <<checks[c].selectedProfile>>,
                 !.portal = "pending", !.api = "pending"]]
  /\ portalRequests' = portalRequests + 1
  /\ apiRequests' = apiRequests + 1
  /\ UNCHANGED <<otherThanBg, storageVars, timerVars, notifications>>

\* The portal request settles; fetchPortalData returns its two sets. If the
\* webhook result is already there the check goes on.
PortalResponse(c, page) ==
  /\ c \in 1..Len(checks)
  /\ checks[c].pc = "awaitFetches"
  /\ checks[c].portal = "pending"
  /\ LET chk == [checks[c] EXCEPT !.portal = PortalOutcome(page),
                                  !.portalData = FetchPortalData(page)]
         next == IF chk.api = "pending"
                 THEN [chk |-> chk, notes |-> notifications]
                 ELSE AfterFetches(c, chk, notifications, now)
     IN /\ checks' = [checks EXCEPT ![c] = next.chk]
        /\ notifications' = next.notes
  /\ UNCHANGED <<otherThanBg, storageVars, timerVars, portalRequests, apiRequests>>

\* Mutant of ApiResponse: a failed webhook fetch also stops the timer.
ApiResponseDisarm(c, resp) ==
  /\ c \in 1..Len(checks)
  /\ checks[c].pc = "awaitFetches"
  /\ checks[c].api = "pending"
  /\ LET chk == [checks[c] EXCEPT !.api = ApiOutcome(resp),
                                  !.apiData = FetchApiData(resp)]
         next == IF chk.portal = "pending"
                 THEN [chk |-> chk, notes |-> notifications]
                 ELSE AfterFetches(c, chk, notifications, now)
     IN /\ checks' = [checks EXCEPT ![c] = next.chk]
        /\ notifications' = next.notes
  /\ IF ApiOutcome(resp) = "failed"
     THEN StopHourlyCheck
     ELSE UNCHANGED <<checkInterval, timers>>
  /\ UNCHANGED <<otherThanBg, storageVars, bootPending, installedFired, startupFired,
                 startAwaitEnabled, startAwaitInterval, intervalAwaitEnabled, runs,
                 now, portalRequests, apiRequests>>

\* The webhook request settles; fetchApiData returns its array. If the
\* portal result is already there the check goes on.
ApiResponse(c, resp) ==
  /\ c \in 1..Len(checks)
  /\ checks[c].pc = "awaitFetches"
  /\ checks[c].api = "pending"
  /\ LET chk == [checks[c] EXCEPT !.api = ApiOutcome(resp),
                                  !.apiData = FetchApiData(resp)]
         next == IF chk.portal = "pending"
                 THEN [chk |-> chk, notes |-> notifications]
                 ELSE AfterFetches(c, chk, notifications, now)
     IN /\ checks' = [checks EXCEPT ![c] = next.chk]
        /\ notifications' = next.notes
  /\ UNCHANGED <<otherThanBg, storageVars, timerVars, portalRequests, apiRequests>>

\* The one-second delay between two profiles is over: the next profile.
CheckDelayElapsed(c) ==
  /\ c \in 1..Len(checks)
  /\ checks[c].pc = "delay"
  /\ LET next == RunProfile(c, checks[c], notifications, now)
     IN /\ checks' = [checks EXCEPT ![c] = next.chk]
        /\ notifications' = next.notes
  /\ UNCHANGED <<otherThanBg, storageVars, timerVars, portalRequests, apiRequests>>

\* ------------------------------------------------ content script: API service

\* Page requests to API_URL and CHECK_UNUPLOADED_FILES requests in one run.
MaxRequests == 2

MaxMessages == 2

\* The parsed body of a webhook response: an array of items, or JSON that is
\* no array. "null" is apiResponseData before any response was stored.
NoResponseData == [kind |-> "null", items |-> <<>>]

WebhookData3 == <<[doneBy |-> "Anuradha", article |-> "A2"],
                  [doneBy |-> "", article |-> "A1"]>>

ResponseBodies ==
  {[kind |-> "array", items |-> <<>>],
   [kind |-> "array", items |-> WebhookData1],
   [kind |-> "array", items |-> WebhookData3],
   [kind |-> "object", items |-> <<>>]}

\* How a request to API_URL can end: the fetch rejects, the 20 s timeout wins
\* the race, the status is an error, the body is no JSON, or a body arrives.
FetchFailures == {"networkError", "timeout", "httpError", "parseError"}

EmptyMap == [a \in {} |-> ""]

\* articleDoneByMap after clear() and the forEach over the data: an item
\* with both fields sets its article's entry, a later item overwrites.
RECURSIVE BuildArticleMap(_, _)
BuildArticleMap(map, items) ==
  IF items = <<>> THEN map
  ELSE LET item == Head(items)
           map1 == IF item.article # "" /\ item.doneBy # ""
                   THEN [a \in DOMAIN map \cup {item.article} |->
                           IF a = item.article THEN item.doneBy ELSE map[a]]
                   ELSE map
       IN BuildArticleMap(map1, Tail(items))

NoCall == [forceRefresh |-> FALSE, hadFetched |-> FALSE, wasFetching |-> FALSE,
           outstanding |-> 0, returned |-> 0, issued |-> FALSE]

\* Mutant of FetchDoneByData: the in-flight guard is missing, so a call
\* that is not skipped always sends a request.
FetchDoneByDataNoGuard(forceRefresh) ==
  IF hasFetched /\ ~forceRefresh
  THEN /\ lastCall' = [forceRefresh |-> forceRefresh, hadFetched |-> hasFetched,
                       wasFetching |-> isFetching, outstanding |-> fetchPromise,
                       returned |-> 0, issued |-> FALSE]
       /\ UNCHANGED <<isFetching, fetchPromise, promises, requests>>
  ELSE /\ isFetching' = TRUE
       /\ promises' = Append(promises, "pending")
       /\ fetchPromise' = Len(promises) + 1
       /\ requests' = requests + 1
       /\ lastCall' = [forceRefresh |-> forceRefresh, hadFetched |-> hasFetched,
                       wasFetching |-> isFetching, outstanding |-> fetchPromise,
                       returned |-> Len(promises) + 1, issued |-> TRUE]

\* Mutant of FetchDoneByData: the hasFetched test is missing, so a call
\* with data already there sends a request like any other.
FetchDoneByDataNoSkip(forceRefresh) ==
  IF isFetching /\ fetchPromise # 0
  THEN /\ lastCall' = [forceRefresh |-> forceRefresh, hadFetched |-> hasFetched,
                       wasFetching |-> isFetching, outstanding |-> fetchPromise,
                       returned |-> fetchPromise, issued |-> FALSE]
       /\ UNCHANGED <<isFetching, fetchPromise, promises, requests>>
  ELSE /\ isFetching' = TRUE
       /\ promises' = Append(promises, "pending")
       /\ fetchPromise' = Len(promises) + 1
       /\ requests' = requests + 1
       /\ lastCall' = [forceRefresh |-> forceRefresh, hadFetched |-> hasFetched,
                       wasFetching |-> isFetching, outstanding |-> fetchPromise,
                       returned |-> Len(promises) + 1, issued |-> TRUE]

\* fetchDoneByData(forceRefresh) up to its return: skip when data is there
\* and no refresh is forced; hand out the promise in flight; else set
\* isFetching, send the request and keep its promise in fetchPromise.
FetchDoneByData(forceRefresh) ==
  IF hasFetched /\ ~forceRefresh
  THEN /\ lastCall' = [forceRefresh |-> forceRefresh, hadFetched |-> hasFetched,
                       wasFetching |-> isFetching, outstanding |-> fetchPromise,
                       returned |-> 0, issued |-> FALSE]
       /\ UNCHANGED <<isFetching, fetchPromise, promises, requests>>
  ELSE IF isFetching /\ fetchPromise # 0
  THEN /\ lastCall' = [forceRefresh |-> forceRefresh, hadFetched |-> hasFetched,
                       wasFetching |-> isFetching, outstanding |-> fetchPromise,
                       returned |-> fetchPromise, issued |-> FALSE]
       /\ UNCHANGED <<isFetching, fetchPromise, promises, requests>>
  ELSE /\ isFetching' = TRUE
       /\ promises' = Append(promises, "pending")
       /\ fetchPromise' = Len(promises) + 1
       /\ requests' = requests + 1
       /\ lastCall' = [forceRefresh |-> forceRefresh, hadFetched |-> hasFetched,
                       wasFetching |-> isFetching, outstanding |-> fetchPromise,
                       returned |-> Len(promises) + 1, issued |-> TRUE]

\* Whether a call made now would send a request.
WouldRequest(forceRefresh) ==
  ~(hasFetched /\ ~forceRefresh) /\ ~(isFetching /\ fetchPromise # 0)

otherThanCs == <<script, bgVars, fnVars, puVars, pdVars, tbVars, abVars, rcVars, ldVars, stVars>>

\* Some caller (initialize, or any user of the service) calls
\* fetchDoneByData and does not wait here.
CallFetchDoneByData(forceRefresh) ==
  /\ WouldRequest(forceRefresh) => requests < MaxRequests
  /\ FetchDoneByData(forceRefresh)
  /\ UNCHANGED <<hasFetched, articleDoneByMap, apiResponseData, table, permission,
                 messages, pageNotifications, otherThanCs>>

\* Mutant of FetchSucceeds: the finally block does not clear fetchPromise.
FetchSucceedsNoFinally(k, body) ==
  /\ k \in 1..Len(promises)
  /\ promises[k] = "pending"
  /\ apiResponseData' = body
  /\ articleDoneByMap' = IF body.kind = "array"
                         THEN BuildArticleMap(EmptyMap, body.items)
                         ELSE EmptyMap
  /\ hasFetched' = TRUE
  /\ isFetching' = FALSE
  /\ promises' = [promises EXCEPT ![k] = "resolved"]
  /\ UNCHANGED <<fetchPromise, requests, lastCall, table, permission, messages,
                 pageNotifications, otherThanCs>>

\* The request of promise k brings a body: the data and the map are stored,
\* hasFetched is set, and the finally block clears isFetching and fetchPromise.
FetchSucceeds(k, body) ==
  /\ k \in 1..Len(promises)
  /\ promises[k] = "pending"
  /\ apiResponseData' = body
  /\ articleDoneByMap' = IF body.kind = "array"
                         THEN BuildArticleMap(EmptyMap, body.items)
                         ELSE EmptyMap
  /\ hasFetched' = TRUE
  /\ isFetching' = FALSE
  /\ fetchPromise' = 0
  /\ promises' = [promises EXCEPT ![k] = "resolved"]
  /\ UNCHANGED <<requests, lastCall, table, permission, messages, pageNotifications,
                 otherThanCs>>

\* Mutant of FetchFails: the map is cleared before the request is known to
\* have failed.
FetchFailsAfterClear(k, failure) ==
  /\ k \in 1..Len(promises)
  /\ promises[k] = "pending"
  /\ failure \in FetchFailures
  /\ articleDoneByMap' = EmptyMap
  /\ hasFetched' = FALSE
  /\ isFetching' = FALSE
  /\ fetchPromise' = 0
  /\ promises' = [promises EXCEPT ![k] = "rejected"]
  /\ UNCHANGED <<apiResponseData, requests, lastCall, table,
                 permission, messages, pageNotifications, otherThanCs>>

\* The request of promise k fails: hasFetched is reset, the error is thrown
\* on, and the finally block clears isFetching and fetchPromise.
FetchFails(k, failure) ==
  /\ k \in 1..Len(promises)
  /\ promises[k] = "pending"
  /\ failure \in FetchFailures
  /\ hasFetched' = FALSE
  /\ isFetching' = FALSE
  /\ fetchPromise' = 0
  /\ promises' = [promises EXCEPT ![k] = "rejected"]
  /\ UNCHANGED <<articleDoneByMap, apiResponseData, requests, lastCall, table,
                 permission, messages, pageNotifications, otherThanCs>>

\* ------------------------------- content script: checkUnuploadedFilesForProfile

\* The page's table as the handler reads it: whether #article_data exists,
\* whether findColumnIndex finds 'Article ID' and 'Action', and the body rows.
PageTables ==
  {[present |-> FALSE, hasArticleId |-> FALSE, hasAction |-> FALSE, rows |-> <<>>],
   [present |-> TRUE, hasArticleId |-> FALSE, hasAction |-> TRUE, rows |-> PortalRows1],
   [present |-> TRUE, hasArticleId |-> TRUE, hasAction |-> TRUE, rows |-> PortalRows1],
   [present |-> TRUE, hasArticleId |-> TRUE, hasAction |-> TRUE, rows |-> PortalRows2]}

\* The two sets the handler collects from the rows of the table.
PagePortalData(tbl) ==
  LET filled == {i \in 1..Len(tbl.rows) : tbl.rows[i].articleId # ""}
  IN [portalArticleIds |-> {tbl.rows[i].articleId : i \in filled},
      pendingQAArticleIds |->
        {tbl.rows[i].articleId :
           i \in {j \in filled : tbl.hasAction
                     /\ tbl.rows[j].action = "pending QA validation"}}]

\* checkUnuploadedFilesForProfile from const apiData = ... on: how it ends
\* and the notification it asks for, as [ended, title, tag].
CheckOutcome(profile) ==
  IF apiResponseData.kind # "array" \/ Len(apiResponseData.items) = 0
  THEN [ended |-> "noData", title |-> "No Data", tag |-> <<"debug-no-api", "">>]
  ELSE IF ~table.present
  THEN [ended |-> "noTable", title |-> "No Table", tag |-> <<"debug-no-table", "">>]
  ELSE IF ~table.hasArticleId
  THEN [ended |-> "noColumn", title |-> "Error", tag |-> <<"debug-no-column", "">>]
  ELSE LET portalData == PagePortalData(table)
           profileArticleIds ==
             ContentProfileArticleIds(profile, portalData.portalArticleIds,
                                      portalData.pendingQAArticleIds,
                                      apiResponseData.items)
       IN IF Len(profileArticleIds) > 0
          THEN [ended |-> "classified", title |-> "Unuploaded Files",
                tag |-> <<"unuploaded", profile>>]
          ELSE [ended |-> "classified", title |-> "Check Complete",
                tag |-> <<"check", profile>>]

\* The handler from const apiData = ... to its return, sendNotification
\* included: a notification is shown only with the permission granted; with
\* the permission "default" the user is asked first and answers `answer`.
FinishCheck(m, profile, answer) ==
  LET outcome == CheckOutcome(profile)
      granted == IF permission = "default" THEN answer ELSE permission
      shown == granted = "granted"
  IN /\ permission' = granted
     /\ pageNotifications' = IF shown THEN pageNotifications \cup {outcome.tag}
                             ELSE pageNotifications
     /\ messages' = [i \in 1..(IF m > Len(messages) THEN m ELSE Len(messages)) |->
          IF i = m
          THEN [pc |-> "done", profile |-> profile, promise |-> 0,
                ended |-> outcome.ended,
                sent |-> IF shown THEN {outcome.title} ELSE {}]
          ELSE messages[i]]

\* A CHECK_UNUPLOADED_FILES request with a profile arrives. Without data and
\* without a fetch in flight the handler calls fetchDoneByData and waits for
\* it; otherwise it goes on at once.
ReceiveCheckMessage(profile, answer) ==
  /\ Len(messages) < MaxMessages
  /\ IF ~hasFetched /\ ~isFetching
     THEN /\ requests < MaxRequests
          /\ answer = "granted"
          /\ FetchDoneByData(FALSE)
          /\ messages' = Append(messages,
               [pc |-> "awaitFetch", profile |-> profile,
                promise |-> lastCall'.returned, ended |-> "", sent |-> {}])
          /\ UNCHANGED <<permission, pageNotifications>>
     ELSE /\ permission = "default" \/ answer = "granted"
          /\ FinishCheck(Len(messages) + 1, profile, answer)
          /\ UNCHANGED <<isFetching, fetchPromise, promises, requests, lastCall>>
  /\ UNCHANGED <<hasFetched, articleDoneByMap, apiResponseData, table, otherThanCs>>

\* The fetch a handler waits for has settled: a rejection is thrown on to
\* the listener, which answers with success false; else the handler goes on.
ResumeCheck(m, answer) ==
  /\ m \in 1..Len(messages)
  /\ messages[m].pc = "awaitFetch"
  /\ promises[messages[m].promise] # "pending"
  /\ IF promises[messages[m].promise] = "rejected"
     THEN /\ answer = "granted"
          /\ messages' = [messages EXCEPT ![m].pc = "done", ![m].ended = "rejected"]
          /\ UNCHANGED <<permission, pageNotifications>>
     ELSE /\ permission = "default" \/ answer = "granted"
          /\ FinishCheck(m, messages[m].profile, answer)
  /\ UNCHANGED <<hasFetched, isFetching, fetchPromise, articleDoneByMap,
                 apiResponseData, promises, requests, lastCall, table, otherThanCs>>

InitContent ==
  /\ hasFetched = FALSE
  /\ isFetching = FALSE
  /\ fetchPromise = 0
  /\ articleDoneByMap = EmptyMap
  /\ apiResponseData = NoResponseData
  /\ promises = <<>>
  /\ requests = 0
  /\ lastCall = NoCall
  /\ table \in PageTables
  /\ permission \in {"default", "granted", "denied"}
  /\ messages = <<>>
  /\ pageNotifications = {}

NextContent ==
  \/ \E forceRefresh \in BOOLEAN : CallFetchDoneByData(forceRefresh)
  \/ \E k \in 1..MaxRequests, body \in ResponseBodies : FetchSucceeds(k, body)
  \/ \E k \in 1..MaxRequests, failure \in FetchFailures : FetchFails(k, failure)
  \/ \E profile \in Range(DEFAULT_PROFILES), answer \in {"granted", "denied"} :
       ReceiveCheckMessage(profile, answer)
  \/ \E m \in 1..MaxMessages, answer \in {"granted", "denied"} : ResumeCheck(m, answer)

\* ------------------------------------------------------ classifier: steps

otherThanFn == <<script, bgVars, csVars, puVars, pdVars, tbVars, abVars, rcVars, ldVars, stVars>>

\* The worker's classifier is applied to the inputs.
ClassifyBackground ==
  /\ fnRan' = "background"
  /\ fnResult' = ProfileArticleIds(fnProfile, fnPortal, fnPendingQA, fnItems)
  /\ UNCHANGED <<fnItems, fnPortal, fnPendingQA, fnProfile, otherThanFn>>

\* The content script's classifier is applied to the inputs.
ClassifyContent ==
  /\ fnRan' = "content"
  /\ fnResult' = ContentProfileArticleIds(fnProfile, fnPortal, fnPendingQA, fnItems)
  /\ UNCHANGED <<fnItems, fnPortal, fnPendingQA, fnProfile, otherThanFn>>

\* The webhook lists the same items in another order: items i and i+1 swap.
\* The result at hand was computed for the order before.
ReorderItems(i) ==
  /\ i \in 1..(Len(fnItems) - 1)
  /\ fnItems[i] # fnItems[i + 1]
  /\ fnItems' = [fnItems EXCEPT ![i] = fnItems[i + 1], ![i + 1] = fnItems[i]]
  /\ UNCHANGED <<fnPortal, fnPendingQA, fnProfile, fnRan, fnResult, otherThanFn>>

InitClassifier ==
  /\ fnItems \in SeqsUpTo(WebhookItems, MaxItems)
  /\ fnPortal \in SUBSET PortalArticles
  /\ fnPendingQA \in SUBSET fnPortal
  /\ fnProfile \in Range(DEFAULT_PROFILES)
  /\ fnRan = "none"
  /\ fnResult = <<>>

NextClassifier ==
  \/ ClassifyBackground
  \/ ClassifyContent
  \/ \E i \in 1..MaxItems : ReorderItems(i)

\* ------------------------------------------------------------------ popup

DEFAULT_INTERVAL_HOURS == 3
MIN_INTERVAL_HOURS == 1
MAX_INTERVAL_HOURS == 10

\* parseInt(intervalInput.value, 10) of what the user typed: NaN or an integer.
ParsedInputs ==
  {[isNaN |-> TRUE, value |-> 0]}
    \cup {[isNaN |-> FALSE, value |-> v] : v \in {-3, 0, 1, 7, 10, 11}}

\* Values another writer may store under checkIntervalHours; 0 is the key removed.
ForeignIntervals == StoredIntervals \cup {-2, 5}

\* saveCheckInterval: the value it stores for a parsed input.
SaveCheckInterval(parsed) ==
  IF parsed.isNaN \/ parsed.value < MIN_INTERVAL_HOURS THEN MIN_INTERVAL_HOURS
  ELSE IF parsed.value > MAX_INTERVAL_HOURS THEN MAX_INTERVAL_HOURS
  ELSE parsed.value

\* loadCheckInterval: the stored value or the default, and its clamped form.
LoadCheckInterval(stored) ==
  LET intervalHours == IF stored = 0 THEN DEFAULT_INTERVAL_HOURS ELSE stored
      capped == IF intervalHours < MAX_INTERVAL_HOURS
                THEN intervalHours ELSE MAX_INTERVAL_HOURS
      validInterval == IF capped > MIN_INTERVAL_HOURS THEN capped ELSE MIN_INTERVAL_HOURS
  IN [intervalHours |-> intervalHours, validInterval |-> validInterval]

\* The user changes the interval field: saveCheckInterval stores the
\* validated value (shown in the field), and the worker's listener fires if
\* the stored value changed.
PopupSaveCheckInterval(parsed) ==
  LET intervalHours == SaveCheckInterval(parsed)
  IN /\ intervalInput' = intervalHours
     /\ lastSet' = intervalHours
     /\ IF intervalHours # checkIntervalHours
        THEN StoreCheckInterval(intervalHours)
        ELSE UNCHANGED bgVars
     /\ UNCHANGED <<script, csVars, fnVars, pdVars, tbVars, abVars, rcVars, ldVars, stVars>>

\* The popup opens: loadCheckInterval shows the clamped value and saves it
\* back if it differs from the one read.
PopupLoadCheckInterval ==
  LET loaded == LoadCheckInterval(checkIntervalHours)
  IN /\ intervalInput' = loaded.validInterval
     /\ IF loaded.validInterval # loaded.intervalHours
        THEN /\ lastSet' = loaded.validInterval
             /\ StoreCheckInterval(loaded.validInterval)
        ELSE UNCHANGED <<lastSet, bgVars>>
     /\ UNCHANGED <<script, csVars, fnVars, pdVars, tbVars, abVars, rcVars, ldVars, stVars>>

\* --------------------------------------------------------------- past due

\* Days of the calendar the dates are taken from: 0..MaxDay.
MaxDay == 2

MinutesPerHour == 60

MinutesPerDay == 1440

\* A Date is an instant, in minutes of local time since the first midnight
\* (no clock change falls in the days modelled). NoDate is null.
NoDate == -1

Instant(day, minute) == day * MinutesPerDay + minute

\* Assign Date cells: "DD/MM/YYYY HH:MM AM/PM", a date without a time, no
\* text at all.
AssignDateCells ==
  [kind : {"dateTime"}, day : 0..MaxDay, hours : {1, 11, 12}, minutes : {0, 30},
   ampm : {"AM", "PM"}]
    \cup [kind : {"dateOnly"}, day : 0..MaxDay, hours : {0}, minutes : {0}, ampm : {""}]
    \cup [kind : {"empty"}, day : {0}, hours : {0}, minutes : {0}, ampm : {""}]

\* Times of new Date().
NowValues == [day : 0..MaxDay, minute : {0, 1, 59, 60, 690, 1439}]

\* parseDate: null without a date part and a time part; else the date at
\* midnight, moved to the time with 12 AM as 0 and PM adding 12 except at 12.
ParseDate(cell) ==
  IF cell.kind # "dateTime" THEN NoDate
  ELSE LET hours == IF cell.ampm = "PM" /\ cell.hours # 12 THEN cell.hours + 12
                    ELSE IF cell.ampm = "AM" /\ cell.hours = 12 THEN 0
                    ELSE cell.hours
       IN Instant(cell.day, 0) + hours * MinutesPerHour + cell.minutes

\* setHours(0, 0, 0, 0): the midnight that starts the date's day.
StartOfDay(date) == date - (date % MinutesPerDay)

\* Mutant of IsPastDate: a date counts as past once it is a day old.
IsPastDateByAge(date, today) ==
  IF date = NoDate THEN FALSE ELSE today - date >= MinutesPerDay

\* isPastDate, with new Date() given as today.
IsPastDate(date, today) ==
  IF date = NoDate THEN FALSE ELSE StartOfDay(date) < StartOfDay(today)

\* Mutant of CalculateDelayedHours: the hours are rounded, not floored.
CalculateDelayedHoursRounded(assignDate, nowDate) ==
  IF assignDate = NoDate THEN 0
  ELSE (nowDate - assignDate + 30) \div MinutesPerHour

\* calculateDelayedHours, with new Date() given as nowDate.
CalculateDelayedHours(assignDate, nowDate) ==
  IF assignDate = NoDate THEN 0
  ELSE (nowDate - assignDate) \div MinutesPerHour

\* formatHours: the number and the unit of the text.
FormatHours(hours) ==
  IF hours >= 24 THEN [n |-> hours \div 24, unit |-> "days"]
  ELSE [n |-> hours, unit |-> "hours"]

NoHoursText == [n |-> 0, unit |-> ""]

otherThanPd == <<script, bgVars, csVars, fnVars, puVars, tbVars, abVars, rcVars, ldVars, stVars>>

\* checkPastDueFiles looks at the row: an empty cell or a date that is not
\* past is left out; of a past date the delay is computed (and its text, as
\* createPastDueMessages makes it).
CheckPastDueRow ==
  /\ ~pdRan
  /\ pdRan' = TRUE
  /\ LET assignDate == ParseDate(pdCell)
         nowDate == Instant(pdNow.day, pdNow.minute)
         isPast == pdCell.kind # "empty" /\ IsPastDate(assignDate, nowDate)
         delayedHours == CalculateDelayedHours(assignDate, nowDate)
     IN /\ pdIsPast' = isPast
        /\ pdDelayedHours' = IF isPast THEN delayedHours ELSE 0
        /\ pdHoursText' = IF isPast THEN FormatHours(delayedHours) ELSE NoHoursText
  /\ UNCHANGED <<pdNow, pdCell, otherThanPd>>

\* The page is looked at again later: the clock has moved on.
CheckPastDueLater(minute) ==
  /\ pdRan
  /\ minute > pdNow.minute
  /\ pdNow' = [pdNow EXCEPT !.minute = minute]
  /\ pdRan' = FALSE
  /\ pdIsPast' = FALSE
  /\ pdDelayedHours' = 0
  /\ pdHoursText' = NoHoursText
  /\ UNCHANGED <<pdCell, otherThanPd>>

\* ------------------------------------------------ table manager: the table

ARTICLE_ID_COLUMN == "Article ID"
DONE_BY_COLUMN == "DONE BY"
SRC_COLUMN == "SRC"

\* The header row as the portal renders it; the extension puts DONE BY
\* between the two (ARCHITECTURE.md, column order).
PortalHeaders == <<ARTICLE_ID_COLUMN, SRC_COLUMN>>

MaxRows == 2
MaxPending == 2

\* A cell is its text and where it comes from: the portal's Article ID cell,
\* the portal's SRC cell, or a cell the extension injected.
ArticleIdTexts == {"", "A1", "x9"}
SrcTexts == {"DOCX", "TEX"}

PortalRow(articleId, src) ==
  <<[kind |-> "articleId", text |-> articleId], [kind |-> "src", text |-> src]>>

PortalRows == {PortalRow(a, s) : a \in ArticleIdTexts, s \in SrcTexts}

InjectedCell(doneBy) == [kind |-> "doneBy", text |-> doneBy]

\* The webhook's map of article ID to assignee; "" where Map.get gives
\* undefined.
TableMaps ==
  {[a \in ArticleIdTexts \ {""} |-> ""],
   [a \in ArticleIdTexts \ {""} |-> IF a = "A1" THEN "Anuradha" ELSE "Ankur"]}

\* articleMap.get(articleId) || '-'
DoneByOf(map, articleId) ==
  IF articleId \in DOMAIN map /\ map[articleId] # "" THEN map[articleId] ELSE "-"

\* /^[A-Z0-9]+/.test(articleId), on the texts of the model.
StartsLikeArticleId(articleId) == articleId \in {"A1"}

\* Utils.findColumnIndex, counting columns from 1, 0 when there is none. No
\* header of the model contains another's text, so the second, "contains"
\* search finds what the exact search finds.
FindColumnIndex(hs, headerText) ==
  IF \E i \in 1..Len(hs) : hs[i] = headerText
  THEN CHOOSE i \in 1..Len(hs) :
         hs[i] = headerText /\ \A j \in 1..(i - 1) : hs[j] # headerText
  ELSE 0

\* Utils.isTexRow: the cell under the SRC header says TEX.
IsTexRow(row, srcColumnIndex) ==
  /\ srcColumnIndex # 0
  /\ Len(row) >= srcColumnIndex
  /\ row[srcColumnIndex].text = "TEX"

\* Utils.areTexRowsAtBottom
AreTexRowsAtBottom(rws, srcColumnIndex) ==
  ~ \E i, j \in 1..Len(rws) :
      i < j /\ IsTexRow(rws[i], srcColumnIndex) /\ ~IsTexRow(rws[j], srcColumnIndex)

\* Utils.splitRowsBySrc
SplitRowsBySrc(rws, srcColumnIndex) ==
  [texRows |-> SelectSeq(rws, LAMBDA r : IsTexRow(r, srcColumnIndex)),
   nonTexRows |-> SelectSeq(rws, LAMBDA r : ~IsTexRow(r, srcColumnIndex))]

\* moveTexRowsToBottom: the body rows it leaves.
MoveTexRowsToBottom(rws, hs, reordering) ==
  LET srcColumnIndex == FindColumnIndex(hs, SRC_COLUMN)
      split == SplitRowsBySrc(rws, srcColumnIndex)
  IN IF \/ reordering
        \/ Len(rws) = 0
        \/ srcColumnIndex = 0
        \/ AreTexRowsAtBottom(rws, srcColumnIndex)
        \/ split.texRows = <<>>
     THEN rws
     ELSE split.nonTexRows \o split.texRows

\* The texts of the model in localeCompare's order; none of them is a number
\* or a date, so Utils.compareCellValues compares them as strings.
TextOrder == <<"", "-", "A1", "Ankur", "Anuradha", "DOCX", "TEX", "x9">>

TextRank(text) == CHOOSE i \in 1..Len(TextOrder) : TextOrder[i] = text

CompareCellValues(valueA, valueB) == TextRank(valueA) - TextRank(valueB)

\* The comparator handleColumnSort gives to Array.prototype.sort.
SortComparator(a, b, columnIndex, newDirection, srcColumnIndex) ==
  LET isATex == IsTexRow(a, srcColumnIndex)
      isBTex == IsTexRow(b, srcColumnIndex)
  IN IF isATex /\ ~isBTex THEN 1
     ELSE IF ~isATex /\ isBTex THEN -1
     ELSE IF Len(a) < columnIndex \/ Len(b) < columnIndex THEN 0
     ELSE IF newDirection = "asc"
          THEN CompareCellValues(a[columnIndex].text, b[columnIndex].text)
          ELSE 0 - CompareCellValues(a[columnIndex].text, b[columnIndex].text)

Reordered(rws, p) == [i \in 1..Len(rws) |-> rws[p[i]]]

\* What rows.sort can leave. The sort is stable, so a comparator that is an
\* order has one outcome. The comparator's 0 for a row with too few cells can
\* make it no order at all; the result is then implementation-defined: any
\* arrangement in which no row is followed by one the comparator puts before
\* it.
SortOutcomes(rws, columnIndex, newDirection, srcColumnIndex) ==
  LET n == Len(rws)
      cmp(i, j) == SortComparator(rws[i], rws[j], columnIndex, newDirection,
                                  srcColumnIndex)
      stable == {p \in Permutations(1..n) :
                   \A i, j \in 1..n :
                     i < j => \/ cmp(p[i], p[j]) < 0
                              \/ cmp(p[i], p[j]) = 0 /\ p[i] < p[j]}
      adjacent == {p \in Permutations(1..n) :
                     \A i \in 1..(n - 1) : cmp(p[i], p[i + 1]) <= 0}
  IN {Reordered(rws, p) : p \in IF stable # {} THEN stable ELSE adjacent}

InsertAfter(seq, i, x) == SubSeq(seq, 1, i) \o <<x>> \o SubSeq(seq, i + 1, Len(seq))

\* populateDoneByColumn, for one row.
PopulateRow(row, hs, map, doneByHeaderIndex, articleIdIndex) ==
  IF Len(row) < Len(hs) THEN row
  ELSE LET articleId == row[articleIdIndex].text
           doneBy == DoneByOf(map, articleId)
       IN IF articleId = "" THEN row
          ELSE IF ~StartsLikeArticleId(articleId) THEN row
          ELSE IF Len(row) >= doneByHeaderIndex
               THEN [row EXCEPT ![doneByHeaderIndex].text = doneBy]
               ELSE InsertAfter(row, articleIdIndex, InjectedCell(doneBy))

\* populateDoneByColumn: the body rows it leaves.
PopulateDoneByColumn(rws, hs, map) ==
  LET doneByHeaderIndex == FindColumnIndex(hs, DONE_BY_COLUMN)
      articleIdIndex == FindColumnIndex(hs, ARTICLE_ID_COLUMN)
  IN IF doneByHeaderIndex = 0 \/ articleIdIndex = 0 THEN rws
     ELSE [i \in 1..Len(rws) |->
             PopulateRow(rws[i], hs, map, doneByHeaderIndex, articleIdIndex)]

\* addDoneByColumn without the header yet: the cell it puts into one row.
AddCell(row, map, articleIdIndex) ==
  IF Len(row) >= articleIdIndex /\ row[articleIdIndex].text # ""
  THEN InsertAfter(row, articleIdIndex,
                   InjectedCell(DoneByOf(map, row[articleIdIndex].text)))
  ELSE row

otherThanTb == <<script, bgVars, csVars, fnVars, puVars, pdVars, abVars, rcVars, ldVars, stVars>>

\* Mutant of AddDoneByColumn: the test for an existing DONE BY header is
\* missing.
AddDoneByColumnNoCheck ==
  /\ LET articleIdIndex == FindColumnIndex(headers, ARTICLE_ID_COLUMN)
     IN IF articleIdIndex = 0
        THEN UNCHANGED <<headers, rows>>
        ELSE /\ headers' = InsertAfter(headers, articleIdIndex, DONE_BY_COLUMN)
             /\ rows' = [i \in 1..Len(rows) |->
                           AddCell(rows[i], articleMap, articleIdIndex)]
  /\ lastOp' = "addDoneByColumn"
  /\ UNCHANGED <<articleMap, sortState, isReordering, orderPending, otherThanTb>>

\* addDoneByColumn: with the header there it only fills the column; without
\* it, it puts the header after Article ID and a cell into every row that
\* has an article ID.
AddDoneByColumn ==
  /\ IF \E i \in 1..Len(headers) : headers[i] = DONE_BY_COLUMN
     THEN /\ rows' = PopulateDoneByColumn(rows, headers, articleMap)
          /\ UNCHANGED headers
     ELSE LET articleIdIndex == FindColumnIndex(headers, ARTICLE_ID_COLUMN)
          IN IF articleIdIndex = 0
             THEN UNCHANGED <<headers, rows>>
             ELSE /\ headers' = InsertAfter(headers, articleIdIndex, DONE_BY_COLUMN)
                  /\ rows' = [i \in 1..Len(rows) |->
                                AddCell(rows[i], articleMap, articleIdIndex)]
  /\ lastOp' = "addDoneByColumn"
  /\ UNCHANGED <<articleMap, sortState, isReordering, orderPending, otherThanTb>>

\* populateDoneByColumn, as the draw, pagination and page-length handlers
\* call it.
CallPopulateDoneByColumn ==
  /\ rows' = PopulateDoneByColumn(rows, headers, articleMap)
  /\ lastOp' = "populateDoneByColumn"
  /\ UNCHANGED <<headers, articleMap, sortState, isReordering, orderPending,
                 otherThanTb>>

\* The header cells replaceTableHeader builds from HEADER_CONFIG, for the
\* columns of the model.
HEADER_CONFIG == <<ARTICLE_ID_COLUMN, DONE_BY_COLUMN, SRC_COLUMN>>

\* replaceTableHeader: the header row is emptied, the sort state cleared and
\* the cells of HEADER_CONFIG appended; the body is not touched.
ReplaceTableHeader ==
  /\ headers' = HEADER_CONFIG
  /\ sortState' = [c \in DOMAIN sortState |-> "none"]
  /\ lastOp' = "replaceTableHeader"
  /\ UNCHANGED <<rows, articleMap, isReordering, orderPending, otherThanTb>>

\* Mutant of HandleColumnSort: the other columns keep their direction.
HandleColumnSortKeepsOthers(columnIndex) ==
  /\ Len(rows) > 0
  /\ orderPending < MaxPending
  /\ LET newDirection == IF sortState[columnIndex] = "asc" THEN "desc" ELSE "asc"
         srcColumnIndex == FindColumnIndex(headers, SRC_COLUMN)
     IN /\ rows' \in SortOutcomes(rows, columnIndex, newDirection, srcColumnIndex)
        /\ sortState' = [sortState EXCEPT ![columnIndex] = newDirection]
  /\ orderPending' = orderPending + 1
  /\ lastOp' = "handleColumnSort"
  /\ UNCHANGED <<headers, articleMap, isReordering, otherThanTb>>

\* A header click: handleColumnSort sorts the body, keeps the direction and
\* schedules applyTableOrder 50 ms later.
HandleColumnSort(columnIndex) ==
  /\ Len(rows) > 0
  /\ orderPending < MaxPending
  /\ LET newDirection == IF sortState[columnIndex] = "asc" THEN "desc" ELSE "asc"
         srcColumnIndex == FindColumnIndex(headers, SRC_COLUMN)
     IN /\ rows' \in SortOutcomes(rows, columnIndex, newDirection, srcColumnIndex)
        /\ sortState' = [c \in DOMAIN sortState |->
                           IF c = columnIndex THEN newDirection
                           ELSE IF c <= Len(headers) THEN "none"
                           ELSE sortState[c]]
  /\ orderPending' = orderPending + 1
  /\ lastOp' = "handleColumnSort"
  /\ UNCHANGED <<headers, articleMap, isReordering, otherThanTb>>

\* DataTables draws the body in an order of its own, with the row elements
\* it has or with new ones rendered from its data, which have no injected
\* cell; the draw.texsort listener schedules applyTableOrder on the next
\* frame.
DataTablesDraw(p, fresh) ==
  /\ Len(rows) > 0
  /\ orderPending < MaxPending
  /\ rows' = [i \in 1..Len(rows) |->
                IF fresh THEN SelectSeq(rows[p[i]], LAMBDA c : c.kind # "doneBy")
                ELSE rows[p[i]]]
  /\ orderPending' = orderPending + 1
  /\ lastOp' = "draw"
  /\ UNCHANGED <<headers, articleMap, sortState, isReordering, otherThanTb>>

\* A scheduled applyTableOrder runs: moveTexRowsToBottom, then highlightRows,
\* which moves nothing.
ApplyTableOrder ==
  /\ orderPending > 0
  /\ rows' = MoveTexRowsToBottom(rows, headers, isReordering)
  /\ isReordering' = FALSE
  /\ orderPending' = orderPending - 1
  /\ lastOp' = "applyTableOrder"
  /\ UNCHANGED <<headers, articleMap, sortState, otherThanTb>>

ColumnIndices == 1..(Len(PortalHeaders) + 1)

RowLists == UNION {[1..n -> PortalRows] : n \in 0..MaxRows}

\* The portal's table before the extension touches it.
InitTable ==
  /\ headers = PortalHeaders
  /\ rows \in RowLists
  /\ articleMap \in TableMaps
  /\ sortState = [c \in ColumnIndices |-> "none"]
  /\ isReordering = FALSE
  /\ orderPending = 0
  /\ lastOp = "none"

IdleTable ==
  /\ headers = <<>>
  /\ rows = <<>>
  /\ articleMap = <<>>
  /\ sortState = <<>>
  /\ isReordering = FALSE
  /\ orderPending = 0
  /\ lastOp = "none"

NextTable ==
  \/ AddDoneByColumn
  \/ CallPopulateDoneByColumn
  \/ ReplaceTableHeader
  \/ \E columnIndex \in 1..Len(headers) : HandleColumnSort(columnIndex)
  \/ \E p \in Permutations(1..Len(rows)), fresh \in BOOLEAN : DataTablesDraw(p, fresh)
  \/ ApplyTableOrder

\* ------------------------------------------ utils: unique abbreviations

MaxNames == 3

\* Strings are sequences of characters. The names of the model: the empty
\* name, a blank one, and names that share their first letters up to case.
NameTexts ==
  {<<>>, <<" ">>, <<"a", "b">>, <<"A", "B">>, <<"a", "b", "1">>,
   <<"a", "b", "c">>, <<"a", "b", "c", "d">>, <<"a", "b", "c", "1">>}

NameLists == UNION {[1..n -> NameTexts] : n \in 0..MaxNames}

\* toUpperCase
UpperChar(c) ==
  CASE c = "a" -> "A"
    [] c = "b" -> "B"
    [] c = "c" -> "C"
    [] c = "d" -> "D"
    [] OTHER -> c

ToUpperCase(text) == [k \in 1..Len(text) |-> UpperChar(text[k])]

\* name.substring(0, n)
Substring(name, n) == SubSeq(name, 1, IF n < Len(name) THEN n ELSE Len(name))

\* !name || name.trim() === ''
IsBlank(name) == \A k \in 1..Len(name) : name[k] = " "

\* The decimal text of num, as originalAbbrev + num appends it.
DecimalDigits == <<"1", "2", "3", "4", "5", "6", "7", "8", "9">>

NumberText(num) == <<DecimalDigits[num]>>

\* The call before it starts on the names.
NewCall(names) ==
  [names |-> names, pc |-> "forEach", i |-> 1, abbrev |-> <<>>,
   originalAbbrev |-> <<>>, counter |-> 0, num |-> 0,
   usedAbbrevs |-> {}, abbrevMap |-> <<>>]

\* usedAbbrevs.has(abbrev)
AbbrevTakenNever(abbrev, usedAbbrevs) == FALSE
AbbrevTaken(abbrev, usedAbbrevs) == abbrev \in usedAbbrevs

\* abbrevMap.set(name, abbrev)
MapSet(map, name, abbrev) ==
  [n \in DOMAIN map \cup {name} |-> IF n = name THEN abbrev ELSE map[n]]

otherThanAb == <<script, bgVars, csVars, fnVars, puVars, pdVars, tbVars, rcVars, ldVars, stVars>>

\* forEach takes the next name: a blank one is passed over, of another the
\* first three characters are tried.
GenNextName ==
  /\ gen.pc = "forEach"
  /\ gen.i <= Len(gen.names)
  /\ LET name == gen.names[gen.i]
     IN gen' = IF IsBlank(name)
               THEN [gen EXCEPT !.i = gen.i + 1]
               ELSE [gen EXCEPT !.abbrev = ToUpperCase(Substring(name, 3)),
                                !.originalAbbrev = ToUpperCase(Substring(name, 3)),
                                !.counter = 3,
                                !.pc = "while"]
  /\ UNCHANGED otherThanAb

\* The test of the outer while and one turn of its body up to the inner
\* while; with the abbreviation free, it is kept and forEach goes on.
GenWhile ==
  /\ gen.pc = "while"
  /\ LET name == gen.names[gen.i]
     IN gen' = IF AbbrevTaken(gen.abbrev, gen.usedAbbrevs)
               THEN IF Len(name) > gen.counter
                    THEN [gen EXCEPT !.abbrev = ToUpperCase(Substring(name, gen.counter + 1)),
                                     !.counter = gen.counter + 1]
                    ELSE [gen EXCEPT !.abbrev = gen.originalAbbrev \o NumberText(1),
                                     !.num = 1,
                                     !.pc = "whileNum"]
               ELSE [gen EXCEPT !.usedAbbrevs = gen.usedAbbrevs \cup {gen.abbrev},
                                !.abbrevMap = MapSet(gen.abbrevMap, name, gen.abbrev),
                                !.i = gen.i + 1,
                                !.pc = "forEach"]
  /\ UNCHANGED otherThanAb

\* The test of the inner while and one turn of its body.
GenWhileNum ==
  /\ gen.pc = "whileNum"
  /\ gen' = IF AbbrevTaken(gen.abbrev, gen.usedAbbrevs)
            THEN [gen EXCEPT !.num = gen.num + 1,
                             !.abbrev = gen.originalAbbrev \o NumberText(gen.num + 1)]
            ELSE [gen EXCEPT !.pc = "while"]
  /\ UNCHANGED otherThanAb

\* forEach is through: return abbrevMap.
GenReturn ==
  /\ gen.pc = "forEach"
  /\ gen.i > Len(gen.names)
  /\ gen' = [gen EXCEPT !.pc = "returned"]
  /\ UNCHANGED otherThanAb

InitAbbreviations == \E names \in NameLists : gen = NewCall(names)

NextAbbreviations == GenNextName \/ GenWhile \/ GenWhileNum \/ GenReturn

IdleAbbreviations == gen = <<>>

\* ------------------------------------------- page script: draw listeners

MaxTimers == 3
MaxInputs == 2

\* The DataTables 'draw' event: the listener sets a 100 ms timer.
DrawEvent(r) == [r EXCEPT !.drawTimers = r.drawTimers + 1]

\* populateDoneByColumn of the table manager this page script uses: with the
\* DONE BY and Article ID headers found it fills the cells and sets a 100 ms
\* timer that re-sorts through DataTables; without them it returns before.
PopulateAndResort(r) ==
  IF r.hasDoneBy THEN [r EXCEPT !.resortTimers = r.resortTimers + 1] ELSE r

\* Filter.applyFilter: with an SRC column it hides or shows the rows and
\* calls updateDataTables, whose dataTable.draw(false) raises 'draw'.
ApplyFilter(r) == IF r.hasSrc THEN DrawEvent(r) ELSE r

\* refreshTableData
RefreshTableData(r) == ApplyFilter(PopulateAndResort(r))

WithinTimerBound(r) ==
  /\ r.drawTimers <= MaxTimers
  /\ r.clickTimers <= MaxTimers
  /\ r.resortTimers <= MaxTimers
  /\ r.highlightTimers <= MaxTimers

NoTimerPending ==
  /\ recon.drawTimers = 0
  /\ recon.clickTimers = 0
  /\ recon.resortTimers = 0
  /\ recon.highlightTimers = 0

otherThanRc == <<script, bgVars, csVars, fnVars, puVars, pdVars, tbVars, abVars, ldVars, stVars>>

ReconcileStep(r) ==
  /\ WithinTimerBound(r)
  /\ recon' = r
  /\ UNCHANGED otherThanRc

\* The user sorts or searches: DataTables draws the table.
UserDraws ==
  /\ recon.inputs < MaxInputs
  /\ ReconcileStep(DrawEvent([recon EXCEPT !.inputs = recon.inputs + 1]))

\* The user clicks in the pagination or changes the page length: the click
\* listener sets a 200 ms timer and DataTables draws the table.
UserChangesPage ==
  /\ recon.inputs < MaxInputs
  /\ ReconcileStep(DrawEvent([recon EXCEPT !.inputs = recon.inputs + 1,
                                           !.clickTimers = recon.clickTimers + 1]))

\* The webhook answers: handleApiSuccess adds the DONE BY column and calls
\* refreshTableData.
HandleApiSuccess ==
  /\ ~recon.hasDoneBy
  /\ ReconcileStep(RefreshTableData([recon EXCEPT !.hasDoneBy = TRUE]))

\* A timer of the draw listener runs: refreshTableData, highlightRows.
DrawTimerFires ==
  /\ recon.drawTimers > 0
  /\ ReconcileStep(RefreshTableData([recon EXCEPT !.drawTimers = recon.drawTimers - 1]))

\* A timer of a click listener runs: refreshTableData.
ClickTimerFires ==
  /\ recon.clickTimers > 0
  /\ ReconcileStep(RefreshTableData([recon EXCEPT !.clickTimers = recon.clickTimers - 1]))

\* The re-sort timer of populateDoneByColumn runs: order by DONE BY and
\* draw(false), then a 150 ms timer for highlightRows.
ResortTimerFires ==
  /\ recon.resortTimers > 0
  /\ ReconcileStep(
       IF recon.hasDoneBy
       THEN DrawEvent([recon EXCEPT !.resortTimers = recon.resortTimers - 1,
                                    !.highlightTimers = recon.highlightTimers + 1])
       ELSE [recon EXCEPT !.resortTimers = recon.resortTimers - 1])

\* The highlight timer runs: highlightRows sets row colours.
HighlightTimerFires ==
  /\ recon.highlightTimers > 0
  /\ ReconcileStep([recon EXCEPT !.highlightTimers = recon.highlightTimers - 1])

TimerFires == DrawTimerFires \/ ClickTimerFires \/ ResortTimerFires \/ HighlightTimerFires

\* The listeners are installed on a table with or without an SRC column;
\* nothing has been drawn since.
InitReconcile ==
  \E hasSrc \in BOOLEAN :
    recon = [hasDoneBy |-> FALSE, hasSrc |-> hasSrc, drawTimers |-> 0,
             clickTimers |-> 0, resortTimers |-> 0, highlightTimers |-> 0,
             inputs |-> 0]

NextReconcile ==
  \/ UserDraws
  \/ UserChangesPage
  \/ HandleApiSuccess
  \/ DrawTimerFires
  \/ ClickTimerFires
  \/ ResortTimerFires
  \/ HighlightTimerFires

IdleReconcile == recon = <<>>

\* ------------------------------------- page script: start of the extension

\* DOM mutations the page makes in one run.
MaxMutations == 3

\* The page as the starters see it: no #article_data yet, the table without
\* its thead row, or the table with its header row.
PageStates == <<"absent", "noHeader", "withHeader">>

\* Mutant of Initialize: the initializationStarted test is missing.
InitializeNoFlag(l) ==
  [l EXCEPT !.initializationStarted = TRUE,
            !.bodyRuns = @ + 1,
            !.fetchCalls = @ + 1,
            !.pc = "waitTable"]

\* initialize() up to its first await: return when initializationStarted is
\* set; else set it, call API.fetchDoneByData() and wait for the table.
Initialize(l) ==
  IF l.initializationStarted THEN l
  ELSE [l EXCEPT !.initializationStarted = TRUE,
                 !.bodyRuns = @ + 1,
                 !.fetchCalls = @ + 1,
                 !.pc = "waitTable"]

\* fallbackInit
FallbackInit(l) ==
  IF l.initializationStarted THEN l
  ELSE IF l.page # "absent" THEN Initialize(l)
  ELSE l

\* The MutationObserver's callback.
ObserverCallback(l) ==
  IF l.initializationStarted THEN [l EXCEPT !.observing = FALSE]
  ELSE IF l.page = "withHeader" /\ ~l.hasDoneByHeader
  THEN Initialize([l EXCEPT !.observing = FALSE])
  ELSE l

\* The script has been evaluated: the fallback timer is set, the observer
\* observes, and initialize has been registered for DOMContentLoaded or,
\* with the document past loading, has been called.
Started(readyState, page) ==
  LET l == [readyState |-> readyState, page |-> page, hasDoneByHeader |-> FALSE,
            initializationStarted |-> FALSE, pc |-> "none",
            bodyRuns |-> 0, fetchCalls |-> 0, applyCalls |-> 0,
            domListener |-> readyState = "loading", timerPending |-> TRUE,
            observing |-> TRUE, callbackPending |-> FALSE, mutations |-> 0]
  IN IF readyState = "loading" THEN l ELSE Initialize(l)

\* DOMContentLoaded fires: the registered initialize runs.
DOMContentLoaded ==
  /\ loader.domListener
  /\ loader.readyState = "loading"
  /\ loader' = Initialize([loader EXCEPT !.readyState = "interactive"])
  /\ UNCHANGED <<script, bgVars, csVars, fnVars, puVars, pdVars, tbVars, abVars, rcVars, stVars>>

\* The 2 s timer fires: fallbackInit runs.
FallbackTimerFires ==
  /\ loader.timerPending
  /\ loader' = FallbackInit([loader EXCEPT !.timerPending = FALSE])
  /\ UNCHANGED <<script, bgVars, csVars, fnVars, puVars, pdVars, tbVars, abVars, rcVars, stVars>>

\* The page changes its DOM: the table appears, gets its header row, or
\* something else changes; an observer that observes gets a callback.
PageMutates(page) ==
  /\ loader.mutations < MaxMutations
  /\ \/ page = loader.page
     \/ loader.page = "absent" /\ page # "absent"
     \/ loader.page = "noHeader" /\ page = "withHeader"
  /\ loader' = [loader EXCEPT !.page = page,
                              !.mutations = @ + 1,
                              !.callbackPending = @ \/ loader.observing]
  /\ UNCHANGED <<script, bgVars, csVars, fnVars, puVars, pdVars, tbVars, abVars, rcVars, stVars>>

\* The observer's callback runs for the mutations recorded so far.
ObserverFires ==
  /\ loader.callbackPending
  /\ loader' = ObserverCallback([loader EXCEPT !.callbackPending = FALSE])
  /\ UNCHANGED <<script, bgVars, csVars, fnVars, puVars, pdVars, tbVars, abVars, rcVars, stVars>>

\* initialize goes on once the table is there and the fetch has settled:
\* applyTableModifications runs, and addDoneByColumn puts the DONE BY header
\* into a header row, which the observer gets to see as a mutation.
InitializeApplies ==
  /\ loader.pc = "waitTable"
  /\ loader.page # "absent"
  /\ loader' = [loader EXCEPT !.pc = "done",
                              !.applyCalls = @ + 1,
                              !.hasDoneByHeader = loader.page = "withHeader",
                              !.callbackPending = @ \/ loader.observing]
  /\ UNCHANGED <<script, bgVars, csVars, fnVars, puVars, pdVars, tbVars, abVars, rcVars, stVars>>

\* waitForElement gives up after 10 s without the table: initialize ends in
\* its catch block.
InitializeTimesOut ==
  /\ loader.pc = "waitTable"
  /\ loader.page = "absent"
  /\ loader' = [loader EXCEPT !.pc = "failed"]
  /\ UNCHANGED <<script, bgVars, csVars, fnVars, puVars, pdVars, tbVars, abVars, rcVars, stVars>>

InitLoader ==
  \E readyState \in {"loading", "interactive", "complete"}, i \in 1..Len(PageStates) :
    loader = Started(readyState, PageStates[i])

NextLoader ==
  \/ DOMContentLoaded
  \/ FallbackTimerFires
  \/ \E i \in 1..Len(PageStates) : PageMutates(PageStates[i])
  \/ ObserverFires
  \/ InitializeApplies
  \/ InitializeTimesOut

IdleLoader == loader = <<>>

\* ------------------------------------------------- stats manager: counts

\* getTodayPersonData, for one person: the distinct article numbers of the
\* person's items. Every item of the list is of today.
GetTodayPersonData(items, name) ==
  {items[i].article :
     i \in {j \in 1..Len(items) :
              /\ (IF items[j].doneBy = "" THEN "-" ELSE items[j].doneBy) = name
              /\ items[j].article # ""}}

\* Mutant of CalculateUploadedCount: the pending-QA branch is left out.
CalculateUploadedCountNoQA(articleIds, portalArticleIds, pendingQAArticleIds) ==
  Cardinality({a \in articleIds : a \notin portalArticleIds})

\* calculateUploadedCount: one for an ID the portal does not list, else one
\* for an ID pending QA.
CalculateUploadedCount(articleIds, portalArticleIds, pendingQAArticleIds) ==
  Cardinality({a \in articleIds : a \notin portalArticleIds})
    + Cardinality({a \in articleIds :
                     a \in portalArticleIds /\ a \in pendingQAArticleIds})

\* getArticleIdBreakdown: the IDs of the UPLOADED lines and of the NOT
\* UPLOADED lines (each list is sorted in the text).
GetArticleIdBreakdown(articleIds, portalArticleIds, pendingQAArticleIds) ==
  LET isUploaded(a) == a \notin portalArticleIds \/ a \in pendingQAArticleIds
  IN [uploaded |-> {a \in articleIds : isUploaded(a)},
      notUploaded |-> {a \in articleIds : ~isUploaded(a)}]

NoStats == [ran |-> FALSE, name |-> "", articleIds |-> {}, uploadedCount |-> 0,
            uploaded |-> {}, notUploaded |-> {}]

\* displayTodayStats computes the count and the tooltip of one person.
DisplayTodayStats(name) ==
  /\ LET articleIds == GetTodayPersonData(fnItems, name)
         breakdown == GetArticleIdBreakdown(articleIds, fnPortal, fnPendingQA)
     IN stats' = [ran |-> TRUE, name |-> name, articleIds |-> articleIds,
                  uploadedCount |->
                    CalculateUploadedCount(articleIds, fnPortal, fnPendingQA),
                  uploaded |-> breakdown.uploaded,
                  notUploaded |-> breakdown.notUploaded]
  /\ UNCHANGED <<script, bgVars, csVars, fnVars, puVars, pdVars, tbVars, abVars,
                 rcVars, ldVars>>

NextStats == \E name \in DoneByValues \ {""} : DisplayTodayStats(name)

IdleStats == stats = NoStats

IdlePastDue ==
  /\ pdNow = [day |-> 0, minute |-> 0]
  /\ pdCell = [kind |-> "empty", day |-> 0, hours |-> 0, minutes |-> 0, ampm |-> ""]
  /\ pdRan = FALSE
  /\ pdIsPast = FALSE
  /\ pdDelayedHours = 0
  /\ pdHoursText = NoHoursText

InitPastDue ==
  /\ pdNow \in NowValues
  /\ pdCell \in AssignDateCells
  /\ pdRan = FALSE
  /\ pdIsPast = FALSE
  /\ pdDelayedHours = 0
  /\ pdHoursText = NoHoursText

NextPastDue ==
  \/ CheckPastDueRow
  \/ \E minute \in {60, 1439} : CheckPastDueLater(minute)

\* ------------------------------------------------------- specifications

\* A script that is not the one followed: nothing of it has run.
IdleBackground ==
  /\ selectedProfile = ""
  /\ notificationsEnabled = FALSE
  /\ checkIntervalHours = 0
  /\ lastChange = "none"
  /\ checkInterval = 0
  /\ timers = <<>>
  /\ bootPending = 0
  /\ installedFired = FALSE
  /\ startupFired = FALSE
  /\ startAwaitEnabled = 0
  /\ startAwaitInterval = 0
  /\ intervalAwaitEnabled = 0
  /\ runs = 0
  /\ checks = <<>>
  /\ now = 0
  /\ notifications = {}
  /\ portalRequests = 0
  /\ apiRequests = 0

IdleContent ==
  /\ hasFetched = FALSE
  /\ isFetching = FALSE
  /\ fetchPromise = 0
  /\ articleDoneByMap = EmptyMap
  /\ apiResponseData = NoResponseData
  /\ promises = <<>>
  /\ requests = 0
  /\ lastCall = NoCall
  /\ table = [present |-> FALSE, hasArticleId |-> FALSE, hasAction |-> FALSE,
              rows |-> <<>>]
  /\ permission = "default"
  /\ messages = <<>>
  /\ pageNotifications = {}

\* The popup has not been opened.
IdlePopup ==
  /\ intervalInput = 0
  /\ lastSet = 0

IdleClassifier ==
  /\ fnItems = <<>>
  /\ fnPortal = {}
  /\ fnPendingQA = {}
  /\ fnProfile = ""
  /\ fnRan = "none"
  /\ fnResult = <<>>

\* The classifiers as functions of their inputs.
ClassifierAlone ==
  script = "classifier" /\ InitClassifier /\ IdleBackground /\ IdleContent /\ IdlePopup /\ IdleReconcile /\ IdleLoader /\ IdleStats
    /\ IdlePastDue /\ IdleTable /\ IdleAbbreviations

SpecClassifier == ClassifierAlone /\ [][NextClassifier]_vars

\* The background worker: lifecycle events, storage changes, the timer and
\* the checks.
NextBackground ==
  \/ OnInstalled
  \/ OnStartup
  \/ BootStorageReply
  \/ \E newProfile \in ProfileValues : ChangeProfile(newProfile)
  \/ \E isEnabled \in BOOLEAN : ChangeNotificationsEnabled(isEnabled)
  \/ \E newIntervalHours \in StoredIntervals : ChangeCheckInterval(newIntervalHours)
  \/ IntervalChangeReply
  \/ StartEnabledReply
  \/ StartIntervalReply
  \/ \E t \in 1..MaxRuns : Tick(t)
  \/ \E c \in 1..MaxRuns : CheckProfileReply(c)
  \/ \E c \in 1..MaxRuns : CheckProfilesListReply(c)
  \/ \E c \in 1..MaxRuns, page \in PortalPages : PortalResponse(c, page)
  \/ \E c \in 1..MaxRuns, resp \in WebhookResponses : ApiResponse(c, resp)
  \/ \E c \in 1..MaxRuns : CheckDelayElapsed(c)

BackgroundAlone ==
  script = "background" /\ InitBackground /\ IdleContent /\ IdleClassifier /\ IdlePopup /\ IdleReconcile /\ IdleLoader /\ IdleStats
    /\ IdlePastDue /\ IdleTable /\ IdleAbbreviations

SpecBackground == BackgroundAlone /\ [][NextBackground]_vars

\* The worker's handlers and its timer alone: the checks they start stay at
\* their first await (no step of checkUnuploadedFiles reads or writes the
\* timer, the handlers' positions or the storage).
NextTimer ==
  \/ OnInstalled
  \/ OnStartup
  \/ BootStorageReply
  \/ \E newProfile \in ProfileValues : ChangeProfile(newProfile)
  \/ \E isEnabled \in BOOLEAN : ChangeNotificationsEnabled(isEnabled)
  \/ \E newIntervalHours \in StoredIntervals : ChangeCheckInterval(newIntervalHours)
  \/ IntervalChangeReply
  \/ StartEnabledReply
  \/ StartIntervalReply
  \/ \E t \in 1..MaxRuns : Tick(t)

SpecTimer == BackgroundAlone /\ [][NextTimer]_vars

\* The check interval: the worker's start-up and restart, the popup's
\* interval field and other writers of the stored value.
NextInterval ==
  \/ BootStorageReply
  \/ StartEnabledReply
  \/ StartIntervalReply
  \/ IntervalChangeReply
  \/ \E newIntervalHours \in ForeignIntervals : SyncCheckInterval(newIntervalHours)
  \/ \E parsed \in ParsedInputs : PopupSaveCheckInterval(parsed)
  \/ PopupLoadCheckInterval

SpecInterval == BackgroundAlone /\ [][NextInterval]_vars

\* The past-due check of one row.
PastDueAlone ==
  /\ script = "pastDue"
  /\ InitPastDue
  /\ IdleBackground
  /\ IdleContent
  /\ IdleClassifier
  /\ IdlePopup /\ IdleReconcile /\ IdleLoader /\ IdleStats
  /\ IdleTable
  /\ IdleAbbreviations

SpecPastDue == PastDueAlone /\ [][NextPastDue]_vars

\* The table manager and the sort manager on the portal's table.
TableAlone ==
  /\ script = "table"
  /\ InitTable
  /\ IdleBackground
  /\ IdleContent
  /\ IdleClassifier
  /\ IdlePopup /\ IdleReconcile /\ IdleLoader /\ IdleStats
  /\ IdlePastDue
  /\ IdleAbbreviations

SpecTable == TableAlone /\ [][NextTable]_vars

\* The stats of the page script on a webhook list and the portal's sets.
StatsAlone ==
  /\ script = "stats"
  /\ InitClassifier
  /\ IdleBackground
  /\ IdleContent
  /\ IdlePopup
  /\ IdlePastDue
  /\ IdleTable
  /\ IdleAbbreviations
  /\ IdleReconcile
  /\ IdleLoader
  /\ IdleStats

SpecStats == StatsAlone /\ [][NextStats]_vars

\* The starters of the page script.
LoaderAlone ==
  /\ script = "loader"
  /\ InitLoader
  /\ IdleBackground
  /\ IdleContent
  /\ IdleClassifier
  /\ IdlePopup
  /\ IdlePastDue
  /\ IdleTable
  /\ IdleAbbreviations
  /\ IdleReconcile
  /\ IdleStats

SpecLoader == LoaderAlone /\ [][NextLoader]_vars

\* The draw listeners of the page script. A timer that is set runs.
ReconcileAlone ==
  /\ script = "listeners"
  /\ InitReconcile
  /\ IdleBackground
  /\ IdleContent
  /\ IdleClassifier
  /\ IdlePopup
  /\ IdlePastDue
  /\ IdleTable
  /\ IdleAbbreviations
  /\ IdleLoader /\ IdleStats

SpecReconcile == ReconcileAlone /\ [][NextReconcile]_vars /\ WF_vars(TimerFires)

\* One call of generateUniqueAbbreviations. The call is synchronous code: it
\* keeps running while it has a step to take.
AbbreviationsAlone ==
  /\ script = "abbreviations"
  /\ InitAbbreviations
  /\ IdleBackground
  /\ IdleContent
  /\ IdleClassifier
  /\ IdlePopup /\ IdleReconcile /\ IdleLoader /\ IdleStats
  /\ IdlePastDue
  /\ IdleTable

SpecAbbreviations ==
  AbbreviationsAlone /\ [][NextAbbreviations]_vars /\ WF_vars(NextAbbreviations)

\* The content script: the API service and the message handler.
ContentAlone ==
  script = "content" /\ InitContent /\ IdleBackground /\ IdleClassifier /\ IdlePopup /\ IdleReconcile /\ IdleLoader /\ IdleStats
    /\ IdlePastDue /\ IdleTable /\ IdleAbbreviations

SpecContent == ContentAlone /\ [][NextContent]_vars

\* ------------------------------------------- API service on its own

\* Requests to API_URL in one run of the service alone.
MaxFetches == 3

\* A body that parses but holds a null item: item['Article number'] throws
\* inside the forEach.
NullBody == [kind |-> "array", items |-> WebhookDataNull]

\* The items the forEach has handled when it reaches the null item.
RECURSIVE ItemsBeforeNull(_)
ItemsBeforeNull(items) ==
  IF items = <<>> \/ Head(items) = NullItem THEN <<>>
  ELSE <<Head(items)>> \o ItemsBeforeNull(Tail(items))

\* A caller calls fetchDoneByData and does not wait here.
ApiCallFetchDoneByData(forceRefresh) ==
  /\ WouldRequest(forceRefresh) => requests < MaxFetches
  /\ FetchDoneByData(forceRefresh)
  /\ UNCHANGED <<hasFetched, articleDoneByMap, apiResponseData, table, permission,
                 messages, pageNotifications, otherThanCs>>

\* The request of promise k brings a body with a null item: the data is
\* stored, the map is cleared and filled up to the null item, the forEach
\* throws, the catch block resets hasFetched and throws on, and the finally
\* block clears isFetching and fetchPromise.
FetchThrowsInForEach(k, body) ==
  /\ k \in 1..Len(promises)
  /\ promises[k] = "pending"
  /\ body.kind = "array"
  /\ ForEachThrows(body.items)
  /\ apiResponseData' = body
  /\ articleDoneByMap' = BuildArticleMap(EmptyMap, ItemsBeforeNull(body.items))
  /\ hasFetched' = FALSE
  /\ isFetching' = FALSE
  /\ fetchPromise' = 0
  /\ promises' = [promises EXCEPT ![k] = "rejectedInForEach"]
  /\ UNCHANGED <<requests, lastCall, table, permission, messages, pageNotifications,
                 otherThanCs>>

NextApi ==
  \/ \E forceRefresh \in BOOLEAN : ApiCallFetchDoneByData(forceRefresh)
  \/ \E k \in 1..MaxFetches, body \in ResponseBodies : FetchSucceeds(k, body)
  \/ \E k \in 1..MaxFetches, failure \in FetchFailures : FetchFails(k, failure)
  \/ \E k \in 1..MaxFetches : FetchThrowsInForEach(k, NullBody)

ApiAlone == ContentAlone

SpecApi == ApiAlone /\ [][NextApi]_vars

\* One check cycle in either script: the worker with its settings left as
\* stored (start-up, ticks, checks), or the page script.
InitCheck ==
  /\ IdleClassifier
  /\ IdlePopup /\ IdleReconcile /\ IdleLoader /\ IdleStats
  /\ IdlePastDue
  /\ IdleTable
  /\ IdleAbbreviations
  /\ \/ script = "background" /\ InitBackground /\ IdleContent
     \/ script = "content" /\ InitContent /\ IdleBackground

NextCheck ==
  \/ script = "background" /\ BootStorageReply
  \/ script = "background" /\ StartEnabledReply
  \/ script = "background" /\ StartIntervalReply
  \/ script = "background" /\ \E t \in 1..MaxRuns : Tick(t)
  \/ script = "background" /\ \E c \in 1..MaxRuns : CheckProfileReply(c)
  \/ script = "background" /\ \E c \in 1..MaxRuns : CheckProfilesListReply(c)
  \/ script = "background"
       /\ \E c \in 1..MaxRuns, page \in PortalPages : PortalResponse(c, page)
  \/ script = "background"
       /\ \E c \in 1..MaxRuns, resp \in WebhookResponses : ApiResponse(c, resp)
  \/ script = "background" /\ \E c \in 1..MaxRuns : CheckDelayElapsed(c)
  \/ script = "content" /\ NextContent

SpecCheck == InitCheck /\ [][NextCheck]_vars

\* ----------------------------------------------------------------- claims

\* C1: for every item list W, portal set P, QA-pending set Q within P and
\* profile p, either classifier gives exactly the article numbers of the
\* items of W done by p whose article is in P and not in Q, whatever the
\* order of W (the result computed for one order is right for every other).
ExpectedNotUploaded ==
  {fnItems[i].article :
     i \in {j \in 1..Len(fnItems) :
              /\ fnItems[j].doneBy = fnProfile
              /\ fnItems[j].article \in fnPortal
              /\ fnItems[j].article \notin fnPendingQA}}

C1_ClassifierExact == fnRan # "none" => Range(fnResult) = ExpectedNotUploaded

\* C1 witness: a classifier ran, reported an article, and left out another
\* article of the profile because it is pending QA.
C1_Witness ==
  /\ fnRan = "background"
  /\ fnResult # <<>>
  /\ \E i \in 1..Len(fnItems) :
       fnItems[i].doneBy = fnProfile /\ fnItems[i].article \in fnPendingQA

\* No handler of the worker is suspended: every storage read has resolved.
Quiescent ==
  /\ bootPending = 0
  /\ startAwaitEnabled = 0
  /\ startAwaitInterval = 0
  /\ intervalAwaitEnabled = 0

\* ARMED: checkInterval names a running interval timer.
Armed == checkInterval \in RunningTimers

\* C2: once all handlers have run to completion, the loop is ARMED only if
\* the notifications are enabled and a profile is selected.
C2_ArmedOnlyWhenEnabledAndProfile ==
  (Quiescent /\ Armed) => (notificationsEnabled /\ selectedProfile # "")

\* C3: in every reachable state at most one interval timer created by the
\* worker is running, and it is the one checkInterval refers to.
C3_AtMostOneTimer ==
  /\ Cardinality(RunningTimers) <= 1
  /\ RunningTimers \subseteq {checkInterval}

\* C4: when the latest storage change disabled the notifications or cleared
\* the profile, then once every pending handler has finished no interval
\* timer is running.
C4_EndsIdle ==
  (Quiescent /\ lastChange \in {"disabled", "profileCleared"}) => RunningTimers = {}

\* C5: after any number of ticks the notification centre holds at most one
\* unuploaded-files notification per profile.
C5_OneSlotPerProfile ==
  \A profile \in Range(DEFAULT_PROFILES) :
    Cardinality({id \in notifications : id[1] = "unuploaded" /\ id[2] = profile}) <= 1

\* Requests of the page that have not settled.
OutstandingRequests == {k \in 1..Len(promises) : promises[k] = "pending"}

\* C6 as stated: a fetchDoneByData call made while a request is in flight
\* sends no request and returns the outstanding operation.
C6_SameOperation ==
  lastCall.wasFetching =>
    (~lastCall.issued /\ lastCall.returned = lastCall.outstanding)

\* C6 as amended: at most one request is outstanding; a call made while a
\* request is in flight sends none, and it returns the outstanding operation
\* unless data was fetched before and no refresh is forced, in which case it
\* returns at once with no operation.
C6_NoDuplicateRequest ==
  /\ Cardinality(OutstandingRequests) <= 1
  /\ lastCall.wasFetching =>
       /\ ~lastCall.issued
       /\ lastCall.outstanding # 0
       /\ lastCall.returned = IF lastCall.hadFetched /\ ~lastCall.forceRefresh
                              THEN 0
                              ELSE lastCall.outstanding

\* C6 witness: the latest call found a request in flight and was handed
\* that same operation, which is still pending.
C6_Witness ==
  /\ lastCall.wasFetching
  /\ lastCall.returned = lastCall.outstanding
  /\ lastCall.returned \in OutstandingRequests
  /\ requests = 1

\* C7: checks that overlap share one fetch pair: at no time are two
\* webhook requests or two portal requests of the worker outstanding.
C7_OneFetchPair ==
  /\ Cardinality({c \in 1..Len(checks) : checks[c].api = "pending"}) <= 1
  /\ Cardinality({c \in 1..Len(checks) : checks[c].portal = "pending"}) <= 1

\* A check one of whose fetches failed.
FetchFailed(chk) == chk.api = "failed" \/ chk.portal = "failed"

FetchFailureStep ==
  \E c \in 1..Len(checks) :
    \/ checks[c].api = "pending" /\ checks'[c].api = "failed"
    \/ checks[c].portal = "pending" /\ checks'[c].portal = "failed"

\* Checks that have sent their requests.
ChecksPastFetch == {c \in 1..Len(checks) : checks[c].api # "none"}

\* C9: a fetch failure leaves checkInterval and the timers as they are and
\* sends no further request; requests are sent only when a check reaches its
\* fetch stage, one of each kind, so a check sends one fetch pair whatever
\* happened to earlier checks.
C9_FailedTickKeepsTimer ==
  /\ [](/\ apiRequests = Cardinality(ChecksPastFetch)
        /\ portalRequests = Cardinality(ChecksPastFetch)
        /\ \A c \in 1..Len(checks) :
             (checks[c].api = "none") = (checks[c].portal = "none"))
  /\ [][FetchFailureStep =>
          UNCHANGED <<checkInterval, timers, apiRequests, portalRequests>>]_vars

\* C9 witness: an earlier check had a fetch fail, the timer is still armed,
\* and a later check, started by a tick, has both its requests out.
C9_Witness ==
  /\ Armed
  /\ \E c, d \in 1..Len(checks) :
       /\ c < d
       /\ FetchFailed(checks[c])
       /\ checks[c].pc = "done"
       /\ checks[d].api = "pending"
       /\ checks[d].portal = "pending"
  /\ apiRequests = 2
  /\ portalRequests = 2

C11_NoErrorNotification ==
  \A c \in 1..Len(checks) : "Error" \notin checks[c].sent

\* How a portal fetch ends when it gives the empty ID set.
EmptyPortalOutcomes == {"failed", "noTable", "noHeader", "noArticleIdColumn", "noBody"}

\* C12: with an empty portal ID set (the page, its table, its header or its
\* body could not be read) the classifier gives the empty list for every
\* profile of the check and the webhook list at hand, and the check sends no
\* unuploaded-files notification.
C12_EmptyPortalNoReminder ==
  \A c \in 1..Len(checks) :
    /\ checks[c].portal \in EmptyPortalOutcomes =>
         /\ checks[c].portalData = EmptyPortalData
         /\ "Unuploaded Files Reminder" \notin checks[c].sent
    /\ (checks[c].pc \in {"awaitFetches", "delay"}
          /\ checks[c].portal # "pending"
          /\ checks[c].portalData.portalArticleIds = {}
          /\ ~ForEachThrows(checks[c].apiData)) =>
         \A i \in 1..Len(checks[c].profilesToCheck) :
           ProfileArticleIds(checks[c].profilesToCheck[i], {}, {},
                             checks[c].apiData) = <<>>

\* C12 witness: an ALL check whose portal page had no table ran the
\* classifier over two webhook items for its first profile and sent nothing.
C12_Witness ==
  \E c \in 1..Len(checks) :
    /\ checks[c].pc = "delay"
    /\ checks[c].portal = "noTable"
    /\ checks[c].selectedProfile = ALL
    /\ checks[c].apiData = WebhookData2
    /\ checks[c].sent = {}

\* C13 as stated: a check that finds the work-item list empty produces no
\* notification, in the worker and in the page script.
C13_NoNotificationOnEmptyList ==
  /\ \A c \in 1..Len(checks) :
       checks[c].ended = "noApiData" => checks[c].sent = {}
  /\ \A m \in 1..Len(messages) :
       messages[m].ended = "noData" => messages[m].sent = {}

\* C13 as amended: a check that finds the work-item list empty classifies
\* nothing and sends no unuploaded-files notification; it reports the empty
\* list instead: the worker sends 'Check Complete' and nothing else, the
\* page script 'No Data' (shown if notifications are permitted).
C13_EmptyListIsReported ==
  /\ \A c \in 1..Len(checks) :
       checks[c].ended = "noApiData" => checks[c].sent = {"Check Complete"}
  /\ \A m \in 1..Len(messages) :
       messages[m].ended = "noData" =>
         messages[m].sent = (IF permission = "granted" THEN {"No Data"} ELSE {})

\* C13 witness: the webhook answered a check of the worker with an empty
\* array; the check ended at its early return with the one notice.
C13_Witness ==
  \E c \in 1..Len(checks) :
    /\ checks[c].ended = "noApiData"
    /\ checks[c].api = "ok"
    /\ checks[c].portal = "ok"
    /\ checks[c].sent = {"Check Complete"}

\* C14: every timer's period is a whole number of hours from 1 to 10; a
\* timer armed with no value stored has the period 3, with a value stored
\* the nearest value in 1..10; and whatever the popup persists is in 1..10.
C14_PeriodWithinBounds ==
  /\ [](/\ \A t \in 1..Len(timers) : timers[t].period \in 1..10
        /\ lastSet # 0 => lastSet \in 1..10)
  /\ [][Len(timers') > Len(timers) =>
          timers'[Len(timers')].period =
            (IF checkIntervalHours = 0 THEN 3
             ELSE IF checkIntervalHours < 1 THEN 1
             ELSE IF checkIntervalHours > 10 THEN 10
             ELSE checkIntervalHours)]_vars

\* C14 witness: a timer was armed at 10 hours with 12 stored, and the popup,
\* opened afterwards, wrote 10 back.
C14_Witness ==
  /\ \E t \in 1..Len(timers) : timers[t].period = 10
  /\ lastSet = 10
  /\ checkIntervalHours = 10
  /\ intervalInput = 10

\* The instant the cell names, worked out from its fields; only for cells
\* with a date and a time.
CellInstant ==
  pdCell.day * 1440 + pdCell.minutes
    + 60 * (CASE pdCell.hours = 12 /\ pdCell.ampm = "AM" -> 0
              [] pdCell.hours = 12 /\ pdCell.ampm = "PM" -> 12
              [] pdCell.hours # 12 /\ pdCell.ampm = "PM" -> pdCell.hours + 12
              [] OTHER -> pdCell.hours)

\* Minutes from the assignment to now.
ElapsedMinutes == pdNow.day * 1440 + pdNow.minute - CellInstant

\* C15: the delay of a past-due item is the whole hours elapsed, rounded
\* down; the text is that number of hours below 24 and the whole days from
\* 24 hours on, the remainder dropped; exactly 24 hours give '1 days'.
C15_DelayFlooredToDays ==
  (pdRan /\ pdIsPast) =>
    /\ pdDelayedHours * 60 <= ElapsedMinutes
    /\ ElapsedMinutes < (pdDelayedHours + 1) * 60
    /\ pdDelayedHours < 24 => pdHoursText = [n |-> pdDelayedHours, unit |-> "hours"]
    /\ pdDelayedHours >= 24 =>
         /\ pdHoursText.unit = "days"
         /\ pdHoursText.n * 24 <= pdDelayedHours
         /\ pdDelayedHours < (pdHoursText.n + 1) * 24
    /\ ElapsedMinutes = 1440 => pdHoursText = [n |-> 1, unit |-> "days"]

\* C15 witness: a past-due item 47 hours and 59 minutes old is shown as
\* '1 days'.
C15_Witness ==
  /\ pdRan
  /\ pdIsPast
  /\ ElapsedMinutes = 47 * 60 + 59
  /\ pdDelayedHours = 47
  /\ pdHoursText = [n |-> 1, unit |-> "days"]

\* C16: an assignment date is past due exactly when its calendar day is
\* before today's, whatever the times of day.
C16_PastDueIffEarlierDay ==
  (pdRan /\ pdCell.kind = "dateTime") => (pdIsPast <=> pdCell.day < pdNow.day)

\* C16 witness: an item assigned at 11:30 PM is past due one minute after
\* the midnight that follows, less than an hour later.
C16_Witness ==
  /\ pdRan
  /\ pdIsPast
  /\ ElapsedMinutes = 31
  /\ pdDelayedHours = 0

\* C17: TEX rows stay at the bottom: right after handleColumnSort on any
\* column in either direction, and right after an applyTableOrder that
\* follows a draw, no row whose SRC cell says TEX stands above a row whose
\* SRC cell says something else.
SaysTex(row) == \E k \in 1..Len(row) : row[k].kind = "src" /\ row[k].text = "TEX"

TexRowAboveOther ==
  \E i, j \in 1..Len(rows) : i < j /\ SaysTex(rows[i]) /\ ~SaysTex(rows[j])

C17_TexRowsAtBottom ==
  lastOp \in {"handleColumnSort", "applyTableOrder"} => ~TexRowAboveOther

\* C19: right after populateDoneByColumn has run with the DONE BY header in
\* place, every body row with a non-empty Article ID has a DONE BY cell, and
\* its text is the webhook's assignee for that ID, or "-" when the webhook
\* has none; rows that a redraw rendered without the cell included.
ArticleIdOf(row) ==
  LET k == CHOOSE k \in 1..Len(row) : row[k].kind = "articleId" IN row[k].text

HasDoneByCell(row, doneBy) ==
  \E k \in 1..Len(row) : row[k] = InjectedCell(doneBy)

C19_EveryRowHasDoneBy ==
  (lastOp = "populateDoneByColumn" /\ FindColumnIndex(headers, DONE_BY_COLUMN) # 0)
    => \A i \in 1..Len(rows) :
         ArticleIdOf(rows[i]) # ""
           => HasDoneByCell(rows[i], DoneByOf(articleMap, ArticleIdOf(rows[i])))

\* C18: generateUniqueAbbreviations returns for every list of names, and in
\* the map it returns no two names have the same abbreviation; every name
\* that is not blank is in the map.
AbbreviationsDiffer ==
  /\ \A n1, n2 \in DOMAIN gen.abbrevMap :
       n1 # n2 => gen.abbrevMap[n1] # gen.abbrevMap[n2]
  /\ \A i \in 1..Len(gen.names) :
       ~IsBlank(gen.names[i]) => gen.names[i] \in DOMAIN gen.abbrevMap

C18_TerminatesWithDifferentAbbreviations ==
  /\ <>(gen.pc = "returned")
  /\ [](gen.pc = "returned" => AbbreviationsDiffer)

\* Three names with the same first letters have been told apart, one of
\* them by a number.
C18_Witness ==
  /\ gen.pc = "returned"
  /\ Cardinality(DOMAIN gen.abbrevMap) = 3
  /\ \E n \in DOMAIN gen.abbrevMap :
       gen.abbrevMap[n] = ToUpperCase(Substring(n, 3)) \o NumberText(2)

\* C20: the timer is re-armed on a change of checkIntervalHours. Once every
\* handler has run to completion after the change, a loop that holds a timer
\* handle with the notifications enabled has exactly one timer running, the
\* one checkInterval names, at the stored period clamped to 1..10 hours; and
\* the change's own callback arms nothing when the loop holds no handle.
C20_RearmedOnIntervalChange ==
  /\ [](  (Quiescent /\ lastChange = "interval" /\ notificationsEnabled
             /\ checkInterval # 0)
          => /\ RunningTimers = {checkInterval}
             /\ timers[checkInterval].period = GetCheckIntervalHours(checkIntervalHours))
  /\ [][ (intervalAwaitEnabled' < intervalAwaitEnabled /\ checkInterval = 0)
           => (startAwaitEnabled' = startAwaitEnabled /\ timers' = timers) ]_vars

\* C21: a CHECK_UNUPLOADED_FILES request that arrives while fetchDoneByData
\* is in flight waits for that fetch: its handler is suspended on the
\* promise in flight, and neither sends a request nor goes on without the
\* data.
C21_WaitsForFetchInFlight ==
  [][ (Len(messages') > Len(messages) /\ isFetching)
        => /\ messages'[Len(messages')].pc = "awaitFetch"
           /\ messages'[Len(messages')].promise = fetchPromise
           /\ requests' = requests ]_vars

\* C22: table reconciliation quiesces: once the user's inputs have stopped,
\* the draw listener, refreshTableData, populateDoneByColumn and applyFilter
\* set off only finitely many further draws, and from some point on no
\* timer of the extension is pending.
C22_ReconciliationQuiesces == <>[]NoTimerPending

\* C23: the stats' uploaded rule is the complement of the classifier's
\* not-uploaded rule. For a person with distinct article IDs D and portal
\* sets P and Q, calculateUploadedCount is the number of IDs of D that are
\* not in P or are in Q; it is the number of UPLOADED lines of
\* getArticleIdBreakdown; uploaded and not uploaded IDs are disjoint and
\* make up D; and the not uploaded ones are those the classifier's rule
\* takes: in P and not in Q.
C23_UploadedIsComplement ==
  stats.ran =>
    /\ stats.uploadedCount
         = Cardinality({a \in stats.articleIds : a \notin fnPortal \/ a \in fnPendingQA})
    /\ stats.uploadedCount = Cardinality(stats.uploaded)
    /\ stats.uploaded \cap stats.notUploaded = {}
    /\ stats.uploaded \cup stats.notUploaded = stats.articleIds
    /\ stats.uploadedCount + Cardinality(stats.notUploaded)
         = Cardinality(stats.articleIds)
    /\ stats.notUploaded
         = {a \in stats.articleIds : a \in fnPortal /\ a \notin fnPendingQA}

\* A person with one ID pending QA, one the portal lists as open and so
\* not uploaded.
C23_Witness ==
  /\ stats.ran
  /\ stats.uploaded \cap fnPendingQA # {}
  /\ stats.notUploaded # {}

\* C24: a run of moveTexRowsToBottom (the move of applyTableOrder) is a
\* stable partition and is idempotent: the body keeps the same rows; no row
\* whose SRC cell says TEX is left above a row whose SRC cell says something
\* else; the rows of each group keep their relative order; isReordering is
\* false afterwards; a second run changes nothing; and the rows are those an
\* unconditional move, without the areTexRowsAtBottom test, would leave.
MoveUnconditionally(rws, hs) ==
  LET split == SplitRowsBySrc(rws, FindColumnIndex(hs, SRC_COLUMN))
  IN split.nonTexRows \o split.texRows

StableRearrangement(before, after) ==
  /\ Len(after) = Len(before)
  /\ \E p \in Permutations(1..Len(before)) :
       /\ \A i \in 1..Len(before) : after[i] = before[p[i]]
       /\ \A i, j \in 1..Len(before) :
            (i < j /\ SaysTex(after[i]) = SaysTex(after[j])) => p[i] < p[j]

C24_StablePartitionIdempotent ==
  [][lastOp' = "applyTableOrder" =>
       /\ StableRearrangement(rows, rows')
       /\ \A i, j \in 1..Len(rows') : (i < j /\ SaysTex(rows'[i])) => SaysTex(rows'[j])
       /\ isReordering' = FALSE
       /\ MoveTexRowsToBottom(rows', headers', isReordering') = rows'
       /\ rows' = MoveUnconditionally(rows, headers)]_vars

\* C27: whenever control is back at the event loop, isFetching is true
\* exactly when fetchPromise holds a promise, and that promise is the one
\* still pending; once every fetch has settled, by success or by failure,
\* isFetching is false and fetchPromise is null.
C27_FetchingIffPromise ==
  /\ isFetching <=> fetchPromise # 0
  /\ fetchPromise # 0 =>
       /\ fetchPromise \in 1..Len(promises)
       /\ promises[fetchPromise] = "pending"
  /\ (\A k \in 1..Len(promises) : promises[k] # "pending") =>
       (~isFetching /\ fetchPromise = 0)

C27_Witness ==
  /\ \E k \in 1..Len(promises) : promises[k] = "resolved"
  /\ \E k \in 1..Len(promises) : promises[k] = "rejected"
  /\ ~isFetching
  /\ fetchPromise = 0

\* C25 as stated: once some fetch has succeeded, every later call with
\* forceRefresh = false sends no request and leaves the cached data as it
\* is; and a failed fetch leaves hasFetched false, the next call sending a
\* new request.
Settled == {k \in 1..Len(promises) : promises[k] # "pending"}

LastSettled == CHOOSE k \in Settled : \A j \in Settled : j <= k

CallReturns == lastCall' # lastCall

FetchFailsNow ==
  \E k \in 1..Len(promises) : promises[k] = "pending" /\ promises'[k] \notin {"pending", "resolved"}

RetryAfterFailure ==
  /\ FetchFailsNow => (~hasFetched' /\ ~isFetching')
  /\ (/\ CallReturns
      /\ Settled # {}
      /\ Settled = 1..Len(promises)
      /\ promises[LastSettled] # "resolved") =>
       (lastCall'.issued /\ requests' = requests + 1)

C25_NoRequestOnceSucceeded ==
  [][/\ (/\ CallReturns
         /\ ~lastCall'.forceRefresh
         /\ \E k \in 1..Len(promises) : promises[k] = "resolved") =>
          /\ ~lastCall'.issued
          /\ requests' = requests
          /\ UNCHANGED <<articleDoneByMap, apiResponseData>>
     /\ RetryAfterFailure]_vars

\* C25, amended: after a fetch has succeeded, and as long as no later fetch
\* has failed, a call with forceRefresh = false sends no request and leaves
\* the cached data as it is; a failed fetch leaves hasFetched false, and the
\* next call sends a new request.
C25_NoRequestWhileLastFetchSucceeded ==
  [][/\ (/\ CallReturns
         /\ ~lastCall'.forceRefresh
         /\ Settled # {}
         /\ promises[LastSettled] = "resolved") =>
          /\ ~lastCall'.issued
          /\ requests' = requests
          /\ UNCHANGED <<articleDoneByMap, apiResponseData, hasFetched>>
     /\ RetryAfterFailure]_vars

C25_Witness ==
  /\ lastCall # NoCall
  /\ ~lastCall.forceRefresh
  /\ lastCall.hadFetched
  /\ ~lastCall.issued
  /\ \E k \in 1..Len(promises) : promises[k] = "rejected"

\* C28: a fetch that fails by a network error, the timeout, an error status
\* or a body that does not parse leaves articleDoneByMap and apiResponseData
\* as they were before it.
C28_FailedFetchKeepsData ==
  [][(\E k \in 1..Len(promises) : promises[k] = "pending" /\ promises'[k] = "rejected") =>
       /\ articleDoneByMap' = articleDoneByMap
       /\ apiResponseData' = apiResponseData]_vars

C28_Witness ==
  /\ Settled # {}
  /\ promises[LastSettled] = "rejected"
  /\ \E k \in Settled : promises[k] = "resolved"
  /\ ~hasFetched
  /\ apiResponseData.kind = "array"
  /\ articleDoneByMap # EmptyMap

\* C26: however the DOMContentLoaded handler, the 2 s fallback timer and the
\* observer's callback interleave, the body of initialize runs at most once
\* on a page, so the first webhook fetch is started at most once and
\* applyTableModifications runs at most once.
C26_InitializeOnce ==
  loader # <<>> =>
    /\ loader.bodyRuns <= 1
    /\ loader.fetchCalls <= 1
    /\ loader.applyCalls <= 1
    /\ loader.initializationStarted <=> loader.bodyRuns = 1

C26_Witness ==
  /\ loader # <<>>
  /\ loader.bodyRuns = 1
  /\ loader.applyCalls = 1
  /\ loader.domListener
  /\ loader.readyState = "interactive"
  /\ ~loader.timerPending
  /\ ~loader.observing

\* C29: at most one column has a sort direction at any time; a header click
\* handled by handleColumnSort on a body with rows turns the clicked
\* column's "asc" into "desc" and any other state of it into "asc", and
\* leaves no other column with a direction; replaceTableHeader leaves every
\* column unsorted.
SortedColumns(state) == {c \in DOMAIN state : state[c] # "none"}

C29_OneSortedColumn ==
  [][/\ Cardinality(SortedColumns(sortState')) <= 1
     /\ lastOp' = "handleColumnSort" =>
          \E c \in 1..Len(headers) :
            /\ sortState'[c] = IF sortState[c] = "asc" THEN "desc" ELSE "asc"
            /\ SortedColumns(sortState') = {c}
     /\ lastOp' = "replaceTableHeader" => SortedColumns(sortState') = {}]_vars

C29_Witness ==
  /\ lastOp = "handleColumnSort"
  /\ Len(headers) = Len(HEADER_CONFIG)
  /\ sortState[Len(HEADER_CONFIG)] = "desc"

\* C30: whatever addDoneByColumn, populateDoneByColumn and replaceTableHeader
\* calls have run, the header row holds at most one DONE BY header and no
\* body row holds more than one injected cell; and an addDoneByColumn that
\* finds the header in place adds no header and no cell.
DoneByHeaders(hs) == {i \in 1..Len(hs) : hs[i] = DONE_BY_COLUMN}

InjectedCells(row) == {k \in 1..Len(row) : row[k].kind = "doneBy"}

C30_OneDoneByColumn ==
  [][/\ Cardinality(DoneByHeaders(headers')) <= 1
     /\ \A i \in 1..Len(rows') : Cardinality(InjectedCells(rows'[i])) <= 1
     /\ (lastOp' = "addDoneByColumn" /\ DoneByHeaders(headers) # {}) =>
          /\ headers' = headers
          /\ Len(rows') = Len(rows)
          /\ \A i \in 1..Len(rows) : Len(rows'[i]) = Len(rows[i])]_vars

C30_Witness ==
  /\ lastOp = "addDoneByColumn"
  /\ DoneByHeaders(headers) # {}
  /\ \E i \in 1..Len(rows) :
       /\ InjectedCells(rows[i]) = {}
       /\ \E k \in 1..Len(rows[i]) : rows[i][k].kind = "articleId" /\ rows[i][k].text = "A1"

====
